---- MODULE Spec2Model ----
(***************************************************************************)
(* A model of tlsfuzzer/messages.py: the Command and Generator nodes, the  *)
(* ConnectionState they change, and the monkey-patching wrappers that fuzz *)
(* one message (fuzz_mac, fuzz_padding, fuzz_plaintext, replace_plaintext, *)
(* fuzz_encrypted_message, fuzz_message, pad_handshake,                    *)
(* fuzz_pkcs1_padding).                                                    *)
(*                                                                         *)
(* A function object is modelled by the chain of closures it is made of:   *)
(* <<>> is the collaborator's own method, Append(h, f) is the closure f    *)
(* that captured h as its old_* default argument.  Byte strings are        *)
(* sequences of 0..255.  A MutationSpec (a dict or None) is a record       *)
(* [none, map], map being the dict's items in iteration order.             *)
(***************************************************************************)
EXTENDS Integers, Sequences, FiniteSets, TLC

VARIABLES
    state,          \* the ConnectionState: transcript, key material, flags
    msg_sock,       \* state.msg_sock: hooks and record-layer state
    public_key,     \* the server's RSA public key object
    private_key,    \* the client's RSA private key object
    pc,             \* where the Runner is: ready, generated, sent, failed
    cur,            \* the Generator node being processed and its message
    wire,           \* the bytes of the last record handed to the socket
    before,         \* the hooks as they were when generate was entered
    last,           \* the operation that made the last step
    steps,          \* nodes processed so far
    log,            \* the arrays of the dict given to CopyVariables
    driver,         \* the batch of a driver script: main()'s locals
    runner          \* the Runner on a conversation tree and its peer

vars == <<state, msg_sock, public_key, private_key, pc, cur, wire, before,
          last, steps, log, driver, runner>>

---------------------------------------------------------------------------
(* Bounds of the model. *)

\* nodes of one conversation
MaxNodes == 5

\* nodes of one conversation of wrapped Generators
MaxWrapped == 2

\* cipher block size of the negotiated CBC cipher, in bytes
BlockSize == 4

\* nodes of one conversation of handshake Generators
MaxHs == 3

---------------------------------------------------------------------------
(* Bytes and byte strings. *)

Front(s) == SubSeq(s, 1, Len(s) - 1)

RECURSIVE XorBits(_, _, _)
XorBits(a, b, n) ==
    IF n = 0 THEN 0
    ELSE (((a % 2) + (b % 2)) % 2) + 2 * XorBits(a \div 2, b \div 2, n - 1)

\* a ^ b on two bytes
Xor(a, b) == XorBits(a, b, 8)

\* data[pos] of Python as an index of a TLA+ sequence of length n
PyIndex(n, pos) == IF pos < 0 THEN n + pos + 1 ELSE pos + 1

\* data[-k:] of Python, k >= 1
PySuffix(data, k) ==
    IF k >= Len(data) THEN data
    ELSE SubSeq(data, Len(data) - k + 1, Len(data))

RECURSIVE SumBytes(_)
SumBytes(data) == IF data = <<>> THEN 0 ELSE Head(data) + SumBytes(Tail(data))

Repeat(b, n) == [i \in 1..n |-> b]

---------------------------------------------------------------------------
(* MutationSpec and substitute_and_xor. *)

None == [none |-> TRUE, map |-> <<>>]
EmptyDict == [none |-> FALSE, map |-> <<>>]
Dict(items) == [none |-> FALSE, map |-> items]

IsEmptySpec(m) == m.none \/ m.map = <<>>

RECURSIVE ApplySubs(_, _)
ApplySubs(data, items) ==
    IF items = <<>> THEN data
    ELSE ApplySubs([data EXCEPT ![PyIndex(Len(data), Head(items)[1])] =
                        Head(items)[2]],
                   Tail(items))

RECURSIVE ApplyXors(_, _)
ApplyXors(data, items) ==
    IF items = <<>> THEN data
    ELSE ApplyXors([data EXCEPT ![PyIndex(Len(data), Head(items)[1])] =
                        Xor(@, Head(items)[2])],
                   Tail(items))

\* a substitute_and_xor that applies the xors first
substitute_and_xor_xors_first(data, substitutions, xors) ==
    LET d1 == IF xors.none THEN data ELSE ApplyXors(data, xors.map)
    IN  IF substitutions.none THEN d1
        ELSE ApplySubs(d1, substitutions.map)

substitute_and_xor(data, substitutions, xors) ==
    LET d1 == IF substitutions.none THEN data
              ELSE ApplySubs(data, substitutions.map)
    IN  IF xors.none THEN d1 ELSE ApplyXors(d1, xors.map)

---------------------------------------------------------------------------
(* The record layer the wrappers hook into (tlslite-ng's RecordLayer, in   *)
(* its MAC-then-encrypt CBC branch): record = send(encrypt(addPadding(     *)
(* data + calculateMAC(data)))).                                           *)

tls_calculateMAC(data) ==
    <<(SumBytes(data) + 7) % 256, ((Len(data) * 3) + 1) % 256>>

tls_addPadding(data) ==
    LET paddingLength == BlockSize - 1 - (Len(data) % BlockSize)
    IN  data \o Repeat(paddingLength, paddingLength + 1)

tls_encrypt(data) == [i \in 1..Len(data) |-> (data[i] + (16 * i) + 101) % 256]

\* fuzz_mac.new_calculate_mac, given what old_calculate_mac returned
new_calculate_mac(f, mac_bytes) ==
    substitute_and_xor(mac_bytes, f.substitutions, f.xors)

RECURSIVE calculateMAC(_, _)
calculateMAC(hook, data) ==
    IF hook = <<>> THEN tls_calculateMAC(data)
    ELSE new_calculate_mac(hook[Len(hook)], calculateMAC(Front(hook), data))

MinLengthNone == -1

div_ceil(divident, divisor) ==
    (divident \div divisor) + (IF (divident % divisor) # 0 THEN 1 ELSE 0)

\* fuzz_padding raises ValueError when the wrapper is made
fuzz_padding_raises(min_length) ==
    min_length # MinLengthNone /\ min_length >= 256

\* fuzz_padding.new_add_padding raises ValueError
fuzz_padding_new_add_padding_raises(f, data) ==
    /\ f.arg # MinLengthNone
    /\ (div_ceil(Len(data) + f.arg, BlockSize) * BlockSize) - Len(data) > 256

\* a new_add_padding that pads to the block after the one min_length ends in
fuzz_padding_new_add_padding_next_block(f, data, padded_data) ==
    LET padding_length ==
          ((((Len(data) + f.arg) \div BlockSize) + 1) * BlockSize) - Len(data)
    IN  data \o Repeat(padding_length - 1, padding_length)

\* fuzz_padding.new_add_padding; padded_data is old_add_padding(data)
fuzz_padding_new_add_padding(f, data, padded_data) ==
    LET padding ==
          IF f.arg = MinLengthNone
          THEN LET padding_length == padded_data[Len(padded_data)]
               IN  PySuffix(padded_data, padding_length + 1)
          ELSE LET padding_length ==
                     (div_ceil(Len(data) + f.arg, BlockSize) * BlockSize)
                         - Len(data)
               IN  Repeat(padding_length - 1, padding_length)
    IN  data \o substitute_and_xor(padding, f.substitutions, f.xors)

\* the new_plaintext a replace_plaintext wrapper was made with: f.arg blocks
new_plaintext(f) == Repeat(170, f.arg * BlockSize)

replace_plaintext_new_add_padding(f, data) == new_plaintext(f)

\* fuzz_plaintext.new_add_padding; padded_data is old_add_padding(data)
fuzz_plaintext_new_add_padding(f, padded_data) ==
    substitute_and_xor(padded_data, f.substitutions, f.xors)

RECURSIVE addPadding(_, _)
addPadding(hook, data) ==
    IF hook = <<>> THEN tls_addPadding(data)
    ELSE LET f == hook[Len(hook)]
             old == addPadding(Front(hook), data)
         IN  CASE f.w = "fuzz_padding" ->
                    fuzz_padding_new_add_padding(f, data, old)
               [] f.w = "replace_plaintext" ->
                    replace_plaintext_new_add_padding(f, data)
               [] OTHER -> fuzz_plaintext_new_add_padding(f, old)

\* fuzz_encrypted_message.new_send: the record that goes on to old_send
new_send(f, data) == substitute_and_xor(data, f.substitutions, f.xors)

RECURSIVE recordSocket_send(_, _)
recordSocket_send(hook, data) ==
    IF hook = <<>> THEN data
    ELSE recordSocket_send(Front(hook), new_send(hook[Len(hook)], data))

\* RecordLayer.sendRecord under the hooks calculateMAC, addPadding, send and
\* the write state ws; <<>> is the null cipher, which neither MACs nor pads
sendRecord(hooks, ws, data) ==
    IF ws = <<>> THEN recordSocket_send(hooks.send, data)
    ELSE recordSocket_send(hooks.send,
             tls_encrypt(addPadding(hooks.addPadding,
                 data \o calculateMAC(hooks.calculateMAC, data))))

Hooks(sock) ==
    [calculateMAC |-> sock.calculateMAC,
     addPadding |-> sock.addPadding,
     send |-> sock.recordSocket.send]

---------------------------------------------------------------------------
(* Messages: what a Generator returns.  write is the chain of new_write    *)
(* closures fuzz_message put on the message, postWrite the post_write      *)
(* closure of pad_handshake (at most one: it is assigned, not chained).    *)

CT_change_cipher_spec == 20
CT_alert == 21
CT_handshake == 22
CT_application_data == 23
CT_heartbeat == 24

\* Message(contentType, data) of the collaborator: write() is the data
Message(contentType, body) ==
    [contentType |-> contentType, is_handshake |-> FALSE, handshakeType |-> 0,
     body |-> body, postWrite |-> <<>>, write |-> <<>>]

\* a HandshakeMsg: write() is postWrite(body)
HandshakeMsg(handshakeType, body) ==
    [contentType |-> CT_handshake, is_handshake |-> TRUE,
     handshakeType |-> handshakeType,
     body |-> body, postWrite |-> <<>>, write |-> <<>>]

NoMessage == Message(0, <<>>)

\* Writer.add(x, 3)
Len3(n) == <<(n \div 65536) % 256, (n \div 256) % 256, n % 256>>

\* HandshakeMsg.postWrite of the collaborator
tls_postWrite(msg) == <<msg.handshakeType>> \o Len3(Len(msg.body)) \o msg.body

\* pad_handshake.new_generate.post_write: f.arg is size, and f has a field
\* pad when pad is not None
post_write(f, msg) ==
    LET size == IF "pad" \in DOMAIN f THEN Len(f.pad) ELSE f.arg
        header == <<msg.handshakeType>> \o Len3(Len(msg.body) + size)
    IN  IF "pad" \in DOMAIN f
        THEN header \o msg.body \o f.pad
        ELSE IF size < 0
        THEN header \o SubSeq(msg.body, 1, Len(msg.body) + size)
        ELSE header \o msg.body \o Repeat(f.pad_byte, size)

\* fuzz_message.new_generate.new_write, given what old_write returned
new_write(f, data) == substitute_and_xor(data, f.substitutions, f.xors)

RECURSIVE WriteChain(_, _)
WriteChain(chain, data) ==
    IF chain = <<>> THEN data
    ELSE new_write(chain[Len(chain)], WriteChain(Front(chain), data))

\* msg.write() of the unpatched message class
tls_write(msg) ==
    IF msg.is_handshake
    THEN IF msg.postWrite = <<>> THEN tls_postWrite(msg)
         ELSE post_write(msg.postWrite[1], msg)
    ELSE msg.body

\* msg.write() as patched
Write(msg) == WriteChain(msg.write, tls_write(msg))

---------------------------------------------------------------------------
(* The wrappers.  A wrapper is [w, substitutions, xors, arg, pad_byte];    *)
(* env is what a wrapped generate works on: the message socket, the        *)
(* Generator object's attributes and the message made so far.              *)

Wrapper(w, substitutions, xors, arg) ==
    [w |-> w, substitutions |-> substitutions, xors |-> xors, arg |-> arg,
     pad_byte |-> 0]

fuzz_message_new_generate(env, f) ==
    [env EXCEPT !.msg.write = Append(@, f)]

pad_handshake_new_generate(env, f) ==
    [env EXCEPT !.msg.postWrite = <<f>>]

fuzz_mac_new_generate(env, f) ==
    [env EXCEPT !.gen.old_calculate_mac = env.sock.calculateMAC,
                !.sock.calculateMAC = Append(env.sock.calculateMAC, f)]

\* new_generate of fuzz_padding, replace_plaintext and fuzz_plaintext: all
\* three keep the old method in the same attribute, self.old_add_padding
fuzz_padding_new_generate(env, f) ==
    [env EXCEPT !.gen.old_add_padding = env.sock.addPadding,
                !.sock.addPadding = Append(env.sock.addPadding, f)]

fuzz_encrypted_message_new_generate(env, f) ==
    [env EXCEPT !.gen.old_send = env.sock.recordSocket.send,
                !.sock.recordSocket.send =
                    Append(env.sock.recordSocket.send, f)]

AddPaddingWrappers == {"fuzz_padding", "replace_plaintext", "fuzz_plaintext"}
HookWrappers == AddPaddingWrappers \cup {"fuzz_mac", "fuzz_encrypted_message"}

\* the part of a wrapper's new_generate that follows msg = old_generate()
wrapper_new_generate(env, f) ==
    CASE f.w = "fuzz_message" -> fuzz_message_new_generate(env, f)
      [] f.w = "pad_handshake" -> pad_handshake_new_generate(env, f)
      [] f.w = "fuzz_mac" -> fuzz_mac_new_generate(env, f)
      [] f.w \in AddPaddingWrappers -> fuzz_padding_new_generate(env, f)
      [] OTHER -> fuzz_encrypted_message_new_generate(env, f)

\* generator.generate of a Generator wrapped by wraps (innermost first),
\* after the innermost old_generate returned
RECURSIVE new_generate(_, _)
new_generate(env, wraps) ==
    IF wraps = <<>> THEN env
    ELSE new_generate(wrapper_new_generate(env, Head(wraps)), Tail(wraps))

\* setattr(obj, name, value) on an object given as a record of attributes
setattr(obj, name, value) ==
    IF name \in DOMAIN obj THEN [obj EXCEPT ![name] = value]
    ELSE obj @@ (name :> value)

\* a new_post_send that restores nothing
post_send_msg_sock_restore_lost(sock, gen, method_name, old_method_name) ==
    sock

\* post_send_msg_sock_restore.new_post_send, before old_post_send runs
post_send_msg_sock_restore(sock, gen, method_name, old_method_name) ==
    setattr(sock, method_name, gen[old_method_name])

method_name_of(w) ==
    CASE w = "fuzz_mac" -> "calculateMAC"
      [] w \in AddPaddingWrappers -> "addPadding"
      [] OTHER -> "._recordSocket.send"

old_method_name_of(w) ==
    CASE w = "fuzz_mac" -> "old_calculate_mac"
      [] w \in AddPaddingWrappers -> "old_add_padding"
      [] OTHER -> "old_send"

\* generator.post_send of a wrapped Generator down to the class's own
\* post_send: the outermost new_post_send runs first
RECURSIVE new_post_send(_, _, _)
new_post_send(sock, gen, wraps) ==
    IF wraps = <<>> THEN sock
    ELSE LET f == wraps[Len(wraps)]
         IN  IF f.w \in HookWrappers
             THEN new_post_send(
                      post_send_msg_sock_restore(sock, gen,
                          method_name_of(f.w), old_method_name_of(f.w)),
                      gen, Front(wraps))
             ELSE new_post_send(sock, gen, Front(wraps))

NoAttrs == [old_calculate_mac |-> <<>>, old_add_padding |-> <<>>,
            old_send |-> <<>>]

---------------------------------------------------------------------------
(* The ConnectionState and the message socket.  Protocol versions are      *)
(* 10 * major + minor, so (3, 4) is 34 and the tuple order is kept.        *)

SSL2 == 2
TLS12 == 33
TLS13 == 34

\* cipher suites: one of CipherSuite.certSuites (RSA key exchange), one of
\* dheCertSuites, one of ecdhAllSuites, one TLS 1.3 suite
TLS_RSA_WITH_AES_128_CBC_SHA == 47
TLS_DHE_RSA_WITH_AES_128_CBC_SHA == 51
TLS_ECDHE_RSA_WITH_AES_128_CBC_SHA == 49171
TLS_AES_128_GCM_SHA256 == 4865

certSuites == {TLS_RSA_WITH_AES_128_CBC_SHA}
dheCertSuites == {TLS_DHE_RSA_WITH_AES_128_CBC_SHA}
ecdhAllSuites == {TLS_ECDHE_RSA_WITH_AES_128_CBC_SHA}

DefaultRecordSize == 16384

\* a short digest standing for a hash of a byte string
Digest(data) == <<SumBytes(data) % 251, Len(data) % 256>>

\* HandshakeHashes() and HandshakeHashes.update(data): the transcript is
\* kept as the bytes hashed so far
HandshakeHashes == <<>>
update(handshake_hashes, data) == handshake_hashes \o data

\* an absent certificate_verify_handshake_hashes (None) is <<>>, a copy hh
\* of the transcript is <<hh>>
NoHashes == <<>>

\* ConnectionState() of the runner
NewConnectionState ==
    [handshake_hashes |-> HandshakeHashes,
     handshake_messages |-> <<>>,
     certificate_verify_handshake_hashes |-> NoHashes,
     key |-> [k \in {"premaster_secret", "master_secret",
                     "client_verify_data", "server_verify_data"} |-> <<>>],
     version |-> TLS12,
     client_version |-> TLS12,
     cipher |-> 0,
     session_id |-> <<>>,
     client_random |-> <<>>,
     server_random |-> <<>>,
     resuming |-> FALSE,
     extended_master_secret |-> FALSE,
     encrypt_then_mac |-> FALSE,
     our_record_size_limit |-> DefaultRecordSize,
     peer_record_size_limit |-> DefaultRecordSize]

\* MessageSocket(sock, defragmenter); connected is FALSE while
\* state.msg_sock is still None
MessageSocket(version) ==
    [connected |-> TRUE, closed |-> FALSE, version |-> version,
     calculateMAC |-> <<>>, addPadding |-> <<>>,
     recordSocket |-> [send |-> <<>>],
     writeState |-> <<>>, readState |-> <<>>,
     pendingWriteState |-> <<>>, pendingReadState |-> <<>>,
     recordSize |-> DefaultRecordSize,
     send_record_limit |-> DefaultRecordSize,
     encryptThenMAC |-> FALSE]

NoSocket == [MessageSocket(0) EXCEPT !.connected = FALSE]

\* RecordLayer.changeWriteState / changeReadState
changeWriteState(sock) ==
    [sock EXCEPT !.writeState = sock.pendingWriteState,
                 !.pendingWriteState = <<>>]

changeReadState(sock) ==
    [sock EXCEPT !.readState = sock.pendingReadState,
                 !.pendingReadState = <<>>]

\* the key derivations of the collaborator, as tagged byte strings
calcMasterSecret(version, cipher, premaster, client_random, server_random) ==
    <<1, version>> \o premaster \o client_random \o server_random

calcExtendedMasterSecret(version, cipher, premaster, hh) ==
    <<2, version>> \o premaster \o hh

calcFinished(version, master_secret, cipher, hh) ==
    <<3>> \o Digest(master_secret \o hh)

derive_secret(secret, label, hh) == <<label>> \o Digest(secret \o hh)

\* calc_pending_states of handshake_helpers: both pending states are keyed
\* from the master secret and the randoms
calc_pending_states(sock, st) ==
    LET keys == <<5>> \o Digest(st.key["master_secret"] \o st.client_random
                                    \o st.server_random)
    IN  [sock EXCEPT !.pendingWriteState = keys, !.pendingReadState = keys]

---------------------------------------------------------------------------
(* The RSA keys.  A key object is its hook: the chain of closures put on   *)
(* _addPKCS1Padding (public key) or _rawPrivateKeyOp (private key).        *)

\* the server key's modulus, as bytes
PublicModulus == <<128, 0, 0, 0, 0, 1>>

RECURSIVE BytesLess(_, _)
\* a < b for two byte strings of one length, read as big-endian numbers
BytesLess(a, b) ==
    IF a = <<>> THEN FALSE
    ELSE IF Head(a) # Head(b) THEN Head(a) < Head(b)
    ELSE BytesLess(Tail(a), Tail(b))

\* RSAKey._addPKCS1Padding(bytes, blockType); rnd is the random filler byte
tls_addPKCS1Padding(bytes, blockType, rnd) ==
    LET padLength == Len(PublicModulus) - (Len(bytes) + 3)
    IN  <<0, blockType>> \o Repeat(rnd, padLength) \o <<0>> \o bytes

\* fuzz_pkcs1_padding.new_addPKCS1Padding, ret being old_add_padding(...)
new_addPKCS1Padding(f, bytes, ret) ==
    LET pad_length == Len(PublicModulus) - Len(bytes)
        pad == SubSeq(ret, 1, pad_length)
        value == SubSeq(ret, pad_length + 1, Len(ret))
    IN  substitute_and_xor(pad, f.substitutions, f.xors) \o value

RECURSIVE addPKCS1Padding(_, _, _, _)
addPKCS1Padding(hook, bytes, blockType, rnd) ==
    IF hook = <<>> THEN tls_addPKCS1Padding(bytes, blockType, rnd)
    ELSE new_addPKCS1Padding(hook[Len(hook)], bytes,
             addPKCS1Padding(Front(hook), bytes, blockType, rnd))

\* fuzz_pkcs1_padding(key, substitutions, xors): the key's hook afterwards
fuzz_pkcs1_padding(hook, substitutions, xors) ==
    IF IsEmptySpec(xors) /\ IsEmptySpec(substitutions) THEN hook
    ELSE Append(hook, Wrapper("fuzz_pkcs1_padding", substitutions, xors, 0))

\* RSAKey.encrypt raises ValueError when the padded number is not below n
encrypt_raises(hook, bytes, rnd) ==
    ~BytesLess(addPKCS1Padding(hook, bytes, 2, rnd), PublicModulus)

\* RSAKey.encrypt: the raw public-key operation stands as a byte-wise map
encrypt(hook, bytes, rnd) ==
    LET padded == addPKCS1Padding(hook, bytes, 2, rnd)
    IN  [i \in 1..Len(padded) |-> (padded[i] * 3 + i) % 256]

\* the client key's modulus n, numBytes(n) = 2
PrivateModulus == 50003

numberToByteArray2(m) == <<(m \div 256) % 256, m % 256>>
bytesToNumber2(b) == (b[1] * 256) + b[2]

\* RSAKey._rawPrivateKeyOp of the collaborator, an arbitrary map below n
tls_rawPrivateKeyOp(m) == ((m * 7) + 3) % PrivateModulus

\* CertificateVerifyGenerator.generate._newRawPrivateKeyOp: the number that
\* is handed to original_rawPrivateKeyOp
newRawPrivateKeyOp_m(f, m) ==
    LET signBytes == substitute_and_xor(numberToByteArray2(m),
                                        f.substitutions, f.xors)
        m2 == bytesToNumber2(signBytes)
    IN  IF m2 > PrivateModulus THEN m2 % PrivateModulus ELSE m2

RECURSIVE rawPrivateKeyOp(_, _)
rawPrivateKeyOp(hook, m) ==
    IF hook = <<>> THEN tls_rawPrivateKeyOp(m)
    ELSE rawPrivateKeyOp(Front(hook), newRawPrivateKeyOp_m(hook[Len(hook)], m))

\* KeyExchange.calcVerifyBytes and the encoding RSAKey.sign does before the
\* private-key operation
calcVerifyBytes(sig_version, hh, premaster, client_random, server_random) ==
    <<7, sig_version>> \o Digest(hh)

EncodedMessage(verify_bytes) ==
    ((SumBytes(verify_bytes) * 257) + Len(verify_bytes)) % PrivateModulus

\* RSAKey.sign(verify_bytes, ...) when it does not raise
sign(hook, verify_bytes) ==
    numberToByteArray2(rawPrivateKeyOp(hook, EncodedMessage(verify_bytes)))

---------------------------------------------------------------------------
(* The Generator nodes.  A node is a record of the constructor arguments   *)
(* that matter here; 0 and <<>> stand for an argument left None.           *)
(* generate returns [st, pk, prk, sock, msg, raised]: the ConnectionState, *)
(* the two keys and the socket afterwards, the message, and whether an     *)
(* exception left generate.                                                *)

Node(gen) ==
    [gen |-> gen, wraps |-> <<>>, version |-> 0, cipher |-> 0,
     payload |-> <<>>, padding_subs |-> None, padding_xors |-> None,
     extended_master_secret |-> "None", opt |-> FALSE]

Result(st, pk, prk, sock, msg, raised) ==
    [st |-> st, pk |-> pk, prk |-> prk, sock |-> sock, msg |-> msg,
     raised |-> raised]

VersionBytes(v) == <<v \div 10, v % 10>>

\* ClientHelloGenerator.generate; node.payload is random, node.opt says
\* that extensions is {renegotiation_info: None}
ClientHelloGenerator_generate(node, st, pk, prk, sock) ==
    LET version == IF node.version = 0 THEN st.client_version
                   ELSE node.version
        random1 == IF node.payload # <<>> THEN node.payload
                   ELSE st.client_random
        session_id == st.session_id
        random2 == IF random1 = <<>> THEN <<0, 0>> ELSE random1
        extensions ==
            IF node.opt
            THEN <<255, 1, Len(st.key["client_verify_data"])>>
                     \o st.key["client_verify_data"]
            ELSE <<>>
        body == <<version>> \o random2 \o <<Len(session_id)>> \o session_id
                    \o extensions
        st1 == [st EXCEPT !.client_random = random2,
                          !.client_version = version]
    IN  IF node.opt /\ "client_verify_data" \notin DOMAIN st.key
        THEN Result([st EXCEPT !.client_random = random2], pk, prk, sock,
                    NoMessage, TRUE)
        ELSE Result(st1, pk, prk, sock, HandshakeMsg(1, body), FALSE)

\* ClientKeyExchangeGenerator._encrypt_with_fuzzing: the public key's hook
\* afterwards, given whether public_key.encrypt raised
encrypt_with_fuzzing_key(old_addPKCS1Padding, fuzzed, raised) ==
    IF raised THEN fuzzed ELSE old_addPKCS1Padding

\* ClientKeyExchangeGenerator.generate; node.payload is premaster_secret
\* (two zero bytes stand for the default bytearray(48))
ClientKeyExchangeGenerator_generate(node, st, pk, prk, sock, rnd) ==
    LET version == IF node.version = 0 THEN st.version ELSE node.version
        cipher == IF node.cipher = 0 THEN st.cipher ELSE node.cipher
        client_version == st.client_version
        premaster0 == IF node.payload = <<>> THEN <<0, 0>> ELSE node.payload
        premaster_secret ==
            VersionBytes(client_version)
                \o SubSeq(premaster0, 3, Len(premaster0))
        st1 == [st EXCEPT !.key = setattr(st.key, "premaster_secret",
                                          premaster_secret)]
        fuzzed == fuzz_pkcs1_padding(pk, node.padding_subs,
                                     node.padding_xors)
        raised == encrypt_raises(fuzzed, premaster_secret, rnd)
        pk1 == encrypt_with_fuzzing_key(pk, fuzzed, raised)
    IN  IF cipher \in certSuites
        THEN IF raised
             THEN Result(st1, pk1, prk, sock, NoMessage, TRUE)
             ELSE Result(st1, pk1, prk, sock,
                         HandshakeMsg(16, encrypt(fuzzed, premaster_secret,
                                                  rnd)),
                         FALSE)
        ELSE IF cipher \in dheCertSuites \cup ecdhAllSuites
        THEN Result(st, pk, prk, sock, HandshakeMsg(16, <<rnd>>), FALSE)
        ELSE Result(st, pk, prk, sock, NoMessage, TRUE)

\* the SSLv2 cipher the pending states are calculated for
SSL_CK_RC4_128_WITH_MD5 == 65664

\* a message of SSLv2: write() is the type and the fields, without the
\* length and without a call of postWrite
SSL2Message(handshakeType, fields) ==
    [contentType |-> CT_handshake, is_handshake |-> FALSE,
     handshakeType |-> handshakeType,
     body |-> <<handshakeType>> \o fields, postWrite |-> <<>>,
     write |-> <<>>]

\* ClientMasterKeyGenerator.generate; node.cipher 0 is None, node.payload
\* is master_key (<<>> is None); no export cipher
ClientMasterKeyGenerator_generate(node, st, pk, prk, sock, rnd) ==
    LET master_key ==
            IF node.payload # <<>> THEN node.payload
            ELSE IF st.key["master_secret"] = <<>> THEN <<rnd, rnd>>
            ELSE st.key["master_secret"]
        keys == <<6>> \o Digest(master_key \o st.client_random
                                    \o st.server_random)
        sock1 == [sock EXCEPT !.pendingWriteState = keys,
                              !.pendingReadState = keys]
        encrypted_master_key == encrypt(pk, master_key, rnd)
        fields == Len3(node.cipher) \o <<0, 0>>
                    \o <<0, Len(encrypted_master_key)>> \o <<0, 0>>
                    \o encrypted_master_key
    IN  IF node.cipher = 0 \/ ~sock.connected
        THEN Result(st, pk, prk, sock, NoMessage, TRUE)
        ELSE IF node.payload = <<>> /\ "master_secret" \notin DOMAIN st.key
        THEN Result(st, pk, prk, sock, NoMessage, TRUE)
        ELSE IF encrypt_raises(pk, master_key, rnd)
        THEN Result(st, pk, prk, sock1, NoMessage, TRUE)
        ELSE Result(st, pk, prk, sock1, SSL2Message(2, fields), FALSE)

\* CertificateGenerator.generate; node.payload stands for the certificates
CertificateGenerator_generate(node, st, pk, prk, sock) ==
    Result(st, pk, prk, sock, HandshakeMsg(11, node.payload), FALSE)

\* the restore after private_key.sign without the finally
sign_no_finally(oldPrivateKeyOp, patched, raised) ==
    IF raised THEN patched ELSE oldPrivateKeyOp

\* CertificateVerifyGenerator.generate, the try ... finally around
\* private_key.sign: the private key's hook afterwards
sign_finally(oldPrivateKeyOp, patched, raised) == oldPrivateKeyOp

\* CertificateVerifyGenerator.generate; node.payload is signature, node.opt
\* says that private_key.sign raises (a salt too long for the key)
CertificateVerifyGenerator_generate(node, st, pk, prk, sock) ==
    LET msg_version == IF node.version = 0 THEN st.version ELSE node.version
        verify_bytes ==
            calcVerifyBytes(msg_version, st.handshake_hashes,
                            st.key["premaster_secret"], st.client_random,
                            st.server_random)
        patched ==
            Append(prk, Wrapper("_newRawPrivateKeyOp", node.padding_subs,
                                node.padding_xors, 0))
        prk1 == sign_finally(prk, patched, node.opt)
    IN  IF node.payload # <<>>
        THEN Result(st, pk, prk, sock, HandshakeMsg(15, node.payload), FALSE)
        ELSE IF "premaster_secret" \notin DOMAIN st.key
        THEN Result(st, pk, prk, sock, NoMessage, TRUE)
        ELSE IF node.opt
        THEN Result(st, pk, prk1, sock, NoMessage, TRUE)
        ELSE Result(st, pk, prk1, sock,
                    HandshakeMsg(15, sign(patched, verify_bytes)), FALSE)

ChangeCipherSpecGenerator_generate(node, st, pk, prk, sock) ==
    Result(st, pk, prk, sock, Message(CT_change_cipher_spec, <<1>>), FALSE)

\* data[start:stop] of Python; stop is <<>> for None
PySlice(data, start, stop) ==
    LET n == Len(data)
        Clamp(i) == IF i < 0 THEN (IF n + i < 0 THEN 0 ELSE n + i)
                    ELSE IF i > n THEN n ELSE i
        lo == Clamp(start)
        hi == IF stop = <<>> THEN n ELSE Clamp(stop[1])
    IN  IF hi <= lo THEN <<>> ELSE SubSeq(data, lo + 1, hi)

\* the verify_data after truncation and padding; node.payload is <<>> for
\* the defaults of the constructor, else trunc_start, pad_byte, pad_left,
\* pad_right, and trunc_end if it is not None
Finished_messing(node, verify_data) ==
    IF node.payload = <<>> THEN verify_data
    ELSE Repeat(node.payload[2], node.payload[3])
            \o PySlice(verify_data, node.payload[1],
                       SubSeq(node.payload, 5, Len(node.payload)))
            \o Repeat(node.payload[2], node.payload[4])

\* a FinishedGenerator.generate that stores the verify_data from before the
\* truncation and the padding
FinishedGenerator_generate_stores_computed(node, st, pk, prk, sock) ==
    LET protocol == IF node.version = 0 THEN st.version ELSE node.version
        ssl2 == protocol \in {SSL2, 20}
        needed == IF ssl2 THEN {}
                  ELSE IF protocol <= TLS12 THEN {"master_secret"}
                  ELSE {"client handshake traffic secret"}
        computed ==
            IF ssl2 THEN st.session_id
            ELSE IF protocol <= TLS12
            THEN calcFinished(st.version, st.key["master_secret"], st.cipher,
                              st.handshake_hashes)
            ELSE <<4>> \o Digest(st.key["client handshake traffic secret"]
                                    \o st.handshake_hashes)
        sock1 == IF ssl2 THEN changeReadState(changeWriteState(sock))
                 ELSE sock
        st1 == [st EXCEPT !.key = setattr(st.key, "client_verify_data",
                                          computed)]
    IN  IF ~(needed \subseteq DOMAIN st.key)
        THEN Result(st, pk, prk, sock, NoMessage, TRUE)
        ELSE Result(st1, pk, prk, sock1,
                    HandshakeMsg(20, Finished_messing(node, computed)), FALSE)

\* FinishedGenerator.generate
FinishedGenerator_generate(node, st, pk, prk, sock) ==
    LET protocol == IF node.version = 0 THEN st.version ELSE node.version
        ssl2 == protocol \in {SSL2, 20}
        needed == IF ssl2 THEN {}
                  ELSE IF protocol <= TLS12 THEN {"master_secret"}
                  ELSE {"client handshake traffic secret"}
        computed ==
            IF ssl2 THEN st.session_id
            ELSE IF protocol <= TLS12
            THEN calcFinished(st.version, st.key["master_secret"], st.cipher,
                              st.handshake_hashes)
            ELSE <<4>> \o Digest(st.key["client handshake traffic secret"]
                                    \o st.handshake_hashes)
        verify_data == Finished_messing(node, computed)
        sock1 == IF ssl2 THEN changeReadState(changeWriteState(sock))
                 ELSE sock
        st1 == [st EXCEPT !.key = setattr(st.key, "client_verify_data",
                                          verify_data)]
    IN  IF ~(needed \subseteq DOMAIN st.key)
        THEN Result(st, pk, prk, sock, NoMessage, TRUE)
        ELSE Result(st1, pk, prk, sock1, HandshakeMsg(20, verify_data), FALSE)

AlertGenerator_generate(node, st, pk, prk, sock) ==
    Result(st, pk, prk, sock, Message(CT_alert, node.payload), FALSE)

ApplicationDataGenerator_generate(node, st, pk, prk, sock) ==
    Result(st, pk, prk, sock, Message(CT_application_data, node.payload),
           FALSE)

\* RawMessageGenerator.generate; node.version is content_type
RawMessageGenerator_generate(node, st, pk, prk, sock) ==
    Result(st, pk, prk, sock, Message(node.version, node.payload), FALSE)

HeartbeatGenerator_generate(node, st, pk, prk, sock) ==
    Result(st, pk, prk, sock, Message(CT_heartbeat, <<1>> \o node.payload),
           FALSE)

\* generate of the node's own class
generate(node, st, pk, prk, sock, rnd) ==
    CASE node.gen = "ClientHello" ->
            ClientHelloGenerator_generate(node, st, pk, prk, sock)
      [] node.gen = "ClientKeyExchange" ->
            ClientKeyExchangeGenerator_generate(node, st, pk, prk, sock, rnd)
      [] node.gen = "ClientMasterKey" ->
            ClientMasterKeyGenerator_generate(node, st, pk, prk, sock, rnd)
      [] node.gen = "Certificate" ->
            CertificateGenerator_generate(node, st, pk, prk, sock)
      [] node.gen = "CertificateVerify" ->
            CertificateVerifyGenerator_generate(node, st, pk, prk, sock)
      [] node.gen = "ChangeCipherSpec" ->
            ChangeCipherSpecGenerator_generate(node, st, pk, prk, sock)
      [] node.gen = "Finished" ->
            FinishedGenerator_generate(node, st, pk, prk, sock)
      [] node.gen = "Alert" ->
            AlertGenerator_generate(node, st, pk, prk, sock)
      [] node.gen = "ApplicationData" ->
            ApplicationDataGenerator_generate(node, st, pk, prk, sock)
      [] node.gen = "RawMessage" ->
            RawMessageGenerator_generate(node, st, pk, prk, sock)
      [] OTHER -> HeartbeatGenerator_generate(node, st, pk, prk, sock)

---------------------------------------------------------------------------
(* post_send of the node's own class: [st, sock, raised].                  *)

Sent(st, sock, raised) == [st |-> st, sock |-> sock, raised |-> raised]

\* a default post_send that hashes the message into the transcript
MessageGenerator_post_send_hashing(st, sock, msg) ==
    Sent([st EXCEPT !.handshake_hashes = update(@, Write(msg))], sock, FALSE)

\* MessageGenerator.post_send: the no-op default
MessageGenerator_post_send(st, sock, msg) == Sent(st, sock, FALSE)

\* a post_send that hashes the message as its class serializes it, without
\* what a wrapper patched into the message object
HandshakeProtocolMessageGenerator_post_send_plain(st, msg) ==
    [st EXCEPT !.handshake_hashes =
                   update(@, tls_write([msg EXCEPT !.postWrite = <<>>])),
               !.handshake_messages = Append(@, msg)]

\* HandshakeProtocolMessageGenerator.post_send: the ConnectionState after
HandshakeProtocolMessageGenerator_post_send(st, msg) ==
    [st EXCEPT !.handshake_hashes = update(@, Write(msg)),
               !.handshake_messages = Append(@, msg)]

\* a post_send of ClientKeyExchangeGenerator that keeps no copy of the
\* transcript
ClientKeyExchangeGenerator_post_send_nocopy(st, sock, msg) ==
    Sent(HandshakeProtocolMessageGenerator_post_send(st, msg), sock, FALSE)

\* ClientKeyExchangeGenerator.post_send
ClientKeyExchangeGenerator_post_send(st, sock, msg) ==
    LET st1 == HandshakeProtocolMessageGenerator_post_send(st, msg)
    IN  Sent([st1 EXCEPT !.certificate_verify_handshake_hashes =
                             <<st1.handshake_hashes>>],
             sock, FALSE)

\* a post_send of ChangeCipherSpecGenerator that switches the write state
\* whatever the version and whatever fake says
ChangeCipherSpecGenerator_post_send_always(node, st, sock) ==
    Sent(st, changeWriteState(calc_pending_states(sock, st)), FALSE)

\* a ChangeCipherSpecGenerator.post_send that does not look at resuming
ChangeCipherSpecGenerator_post_send_full(node, st, sock) ==
    IF st.version >= TLS13 \/ node.opt THEN Sent(st, sock, FALSE)
    ELSE IF "premaster_secret" \notin DOMAIN st.key THEN Sent(st, sock, TRUE)
    ELSE
    LET master_secret ==
            calcMasterSecret(st.version, st.cipher,
                             st.key["premaster_secret"],
                             st.client_random, st.server_random)
        st1 == [st EXCEPT !.key = setattr(st.key, "master_secret",
                                          master_secret)]
    IN  Sent(st1, changeWriteState(calc_pending_states(sock, st1)), FALSE)

\* ChangeCipherSpecGenerator.post_send; node.opt is fake
ChangeCipherSpecGenerator_post_send(node, st, sock) ==
    IF st.version >= TLS13 \/ node.opt THEN Sent(st, sock, FALSE)
    ELSE
    LET sock1 == [sock EXCEPT !.encryptThenMAC = st.encrypt_then_mac]
        extended_master_secret ==
            IF node.extended_master_secret = "None"
            THEN st.extended_master_secret
            ELSE node.extended_master_secret = "True"
        hh == IF st.certificate_verify_handshake_hashes # NoHashes
              THEN st.certificate_verify_handshake_hashes[1]
              ELSE st.handshake_hashes
        master_secret ==
            IF extended_master_secret
            THEN calcExtendedMasterSecret(st.version, st.cipher,
                                          st.key["premaster_secret"], hh)
            ELSE calcMasterSecret(st.version, st.cipher,
                                  st.key["premaster_secret"],
                                  st.client_random, st.server_random)
        st1 == IF st.resuming THEN st
               ELSE [st EXCEPT !.key = setattr(st.key, "master_secret",
                                               master_secret)]
        sock2 == IF st.resuming THEN sock1
                 ELSE calc_pending_states(sock1, st1)
        sock3 == changeWriteState(sock2)
        sock4 == IF st.peer_record_size_limit # 0
                 THEN [sock3 EXCEPT
                          !.send_record_limit = st.peer_record_size_limit,
                          !.recordSize = st.peer_record_size_limit]
                 ELSE sock3
    IN  IF ~st.resuming /\ "premaster_secret" \notin DOMAIN st.key
        THEN Sent(st, sock1, TRUE)
        ELSE Sent(st1, sock4, FALSE)

\* a post_send of FinishedGenerator that derives the resumption master
\* secret before the Finished is in the transcript
FinishedGenerator_post_send_early(st, sock, msg) ==
    LET res_ms == derive_secret(st.key["master secret"], 9,
                                st.handshake_hashes)
        st1 == [HandshakeProtocolMessageGenerator_post_send(st, msg)
                    EXCEPT !.resuming = FALSE]
    IN  IF st.version <= TLS12 THEN Sent(st1, sock, FALSE)
        ELSE IF "master secret" \notin DOMAIN st1.key
        THEN Sent(st1, changeWriteState(sock), TRUE)
        ELSE Sent([st1 EXCEPT !.key = setattr(st1.key,
                                  "resumption master secret", res_ms)],
                  changeWriteState(sock), FALSE)

\* FinishedGenerator.post_send
FinishedGenerator_post_send(st, sock, msg) ==
    LET st1 == [HandshakeProtocolMessageGenerator_post_send(st, msg)
                    EXCEPT !.resuming = FALSE]
        sock1 == changeWriteState(sock)
        res_ms == derive_secret(st1.key["master secret"], 9,
                                st1.handshake_hashes)
    IN  IF st.version <= TLS12 THEN Sent(st1, sock, FALSE)
        ELSE IF "master secret" \notin DOMAIN st1.key
        THEN Sent(st1, sock1, TRUE)
        ELSE Sent([st1 EXCEPT !.key = setattr(st1.key,
                                  "resumption master secret", res_ms)],
                  sock1, FALSE)

HandshakeGenerators ==
    {"ClientHello", "ClientKeyExchange", "ClientMasterKey", "Certificate",
     "CertificateVerify", "Finished"}

post_send(node, st, sock, msg) ==
    CASE node.gen = "ClientKeyExchange" ->
            ClientKeyExchangeGenerator_post_send(st, sock, msg)
      [] node.gen = "Finished" -> FinishedGenerator_post_send(st, sock, msg)
      [] node.gen = "ChangeCipherSpec" ->
            ChangeCipherSpecGenerator_post_send(node, st, sock)
      [] node.gen \in {"ClientHello", "ClientMasterKey", "Certificate",
                       "CertificateVerify"} ->
            Sent(HandshakeProtocolMessageGenerator_post_send(st, msg), sock,
                 FALSE)
      [] OTHER -> MessageGenerator_post_send(st, sock, msg)

---------------------------------------------------------------------------
(* The Command nodes: process returns [st, sock, wire, raised].            *)

Processed(st, sock, w, raised) ==
    [st |-> st, sock |-> sock, wire |-> w, raised |-> raised]

Cmd(cmd, payload, payload2) ==
    [cmd |-> cmd, payload |-> payload, payload2 |-> payload2]

\* dict.pop(name, None)
pop(key, name) == [k \in DOMAIN key \ {name} |-> key[k]]

\* Connect.process; c.payload is <<version>>
Connect_process(c, st, sock, w) ==
    Processed(st, MessageSocket(c.payload[1]), w, FALSE)

Close_process(c, st, sock, w) ==
    IF sock.connected THEN Processed(st, [sock EXCEPT !.closed = TRUE], w,
                                     FALSE)
    ELSE Processed(st, sock, w, TRUE)

\* a reset that leaves every entry of state.key in place
ResetHandshakeHashes_process_keeps(c, st, sock, w) ==
    Processed([st EXCEPT !.handshake_hashes = HandshakeHashes,
                         !.our_record_size_limit = DefaultRecordSize,
                         !.peer_record_size_limit = DefaultRecordSize],
              sock, w, FALSE)

\* a reset that empties state.key
ResetHandshakeHashes_process_clears(c, st, sock, w) ==
    Processed([st EXCEPT !.handshake_hashes = HandshakeHashes,
                         !.key = [k \in {} |-> <<>>],
                         !.our_record_size_limit = DefaultRecordSize,
                         !.peer_record_size_limit = DefaultRecordSize],
              sock, w, FALSE)

ResetHandshakeHashes_process(c, st, sock, w) ==
    Processed([st EXCEPT !.handshake_hashes = HandshakeHashes,
                         !.key = pop(pop(st.key, "PSK secret"),
                                     "DH shared secret"),
                         !.our_record_size_limit = DefaultRecordSize,
                         !.peer_record_size_limit = DefaultRecordSize],
              sock, w, FALSE)

\* a ResetRenegotiationInfo that leaves both values as they are
ResetRenegotiationInfo_process_keeps(c, st, sock, w) ==
    Processed(st, sock, w, FALSE)

\* ResetRenegotiationInfo.process; None arguments are bytearray(0)
ResetRenegotiationInfo_process(c, st, sock, w) ==
    Processed([st EXCEPT !.key = setattr(setattr(st.key,
                                  "client_verify_data", c.payload),
                                  "server_verify_data", c.payload2)],
              sock, w, FALSE)

\* PlaintextMessageGenerator.process: _recordSocket.send(msg) with one
\* argument, which a new_send(message, padding) left there cannot take
PlaintextMessageGenerator_process(c, st, sock, w) ==
    IF ~sock.connected \/ sock.closed \/ sock.recordSocket.send # <<>>
    THEN Processed(st, sock, w, TRUE)
    ELSE Processed(st, sock, c.payload, FALSE)

\* the names a CopyVariables node may be given, and their arrays when empty
LogNames ==
    {"ClientHello.random", "ServerHello.random", "ServerHello.session_id",
     "premaster_secret", "master secret", "DH shared secret",
     "master_secret", "client_verify_data"}

NoLog == [name \in LogNames |-> <<>>]

\* val.append(x) on the array of one name
append(lg, name, x) == [lg EXCEPT ![name] = Append(@, x)]

Copied(lg, raised) == [log |-> lg, raised |-> raised]

\* a CopyVariables that appends a default for a name that is not defined
RECURSIVE CopyVariables_process_default(_, _, _)
CopyVariables_process_default(items, st, lg) ==
    IF items = <<>> THEN Copied(lg, FALSE)
    ELSE LET name == Head(items)
             val == IF name = "ClientHello.random" THEN st.client_random
                    ELSE IF name = "ServerHello.random" THEN st.server_random
                    ELSE IF name = "ServerHello.session_id"
                    THEN st.session_id
                    ELSE IF name \in DOMAIN st.key THEN st.key[name]
                    ELSE <<>>
         IN  CopyVariables_process_default(Tail(items), st,
                                           append(lg, name, val))

\* CopyVariables.process; items are the names of self.log in the order the
\* dict yields them, lg the arrays they are bound to
RECURSIVE CopyVariables_process(_, _, _)
CopyVariables_process(items, st, lg) ==
    IF items = <<>> THEN Copied(lg, FALSE)
    ELSE LET name == Head(items)
         IN  IF name = "ClientHello.random"
             THEN CopyVariables_process(Tail(items), st,
                                        append(lg, name, st.client_random))
             ELSE IF name = "ServerHello.random"
             THEN CopyVariables_process(Tail(items), st,
                                        append(lg, name, st.server_random))
             ELSE IF name = "ServerHello.session_id"
             THEN CopyVariables_process(Tail(items), st,
                                        append(lg, name, st.session_id))
             ELSE IF name \notin DOMAIN st.key
             THEN Copied(lg, TRUE)
             ELSE CopyVariables_process(Tail(items), st,
                                        append(lg, name, st.key[name]))

process(c, st, sock, w) ==
    CASE c.cmd = "Connect" -> Connect_process(c, st, sock, w)
      [] c.cmd = "Close" -> Close_process(c, st, sock, w)
      [] c.cmd = "ResetHandshakeHashes" ->
            ResetHandshakeHashes_process(c, st, sock, w)
      [] c.cmd = "ResetRenegotiationInfo" ->
            ResetRenegotiationInfo_process(c, st, sock, w)
      [] OTHER -> PlaintextMessageGenerator_process(c, st, sock, w)

---------------------------------------------------------------------------
(* The Runner: a Command is processed; an Expectation receives; a          *)
(* Generator goes through generate, the transmission and post_send.  An    *)
(* exception in any of them ends the conversation (pc = "failed").         *)

AllHooks(sock, pk, prk) ==
    [calculateMAC |-> sock.calculateMAC,
     addPadding |-> sock.addPadding,
     send |-> sock.recordSocket.send,
     addPKCS1Padding |-> pk,
     rawPrivateKeyOp |-> prk]

Cur(node, gen, msg) == [node |-> node, gen |-> gen, msg |-> msg]

Hooking(node) ==
    {i \in 1..Len(node.wraps) : node.wraps[i].w \in HookWrappers}

\* node.generate(state), wrappers included
Generate(node, rnd, bound) ==
    /\ pc = "ready"
    /\ steps < bound
    /\ LET r == generate(node, state, public_key, private_key, msg_sock, rnd)
           raised == r.raised \/ (Hooking(node) # {} /\ ~r.sock.connected)
           env == new_generate([sock |-> r.sock, gen |-> NoAttrs,
                                msg |-> r.msg], node.wraps)
       IN  /\ state' = r.st
           /\ public_key' = r.pk
           /\ private_key' = r.prk
           /\ IF raised
              THEN /\ msg_sock' = r.sock
                   /\ cur' = Cur(node, NoAttrs, NoMessage)
                   /\ pc' = "failed"
                   /\ last' = "generate raised"
              ELSE /\ msg_sock' = env.sock
                   /\ cur' = Cur(node, env.gen, env.msg)
                   /\ pc' = "generated"
                   /\ last' = "generate"
    /\ before' = AllHooks(msg_sock, public_key, private_key)
    /\ steps' = steps + 1
    /\ UNCHANGED <<wire, log, driver, runner>>

\* the transmission of the generated message
Send ==
    /\ pc = "generated"
    /\ msg_sock.connected /\ ~msg_sock.closed
    /\ wire' = sendRecord(Hooks(msg_sock), msg_sock.writeState,
                          Write(cur.msg))
    /\ pc' = "sent"
    /\ last' = "send"
    /\ UNCHANGED <<state, msg_sock, public_key, private_key, cur, before,
                   steps, log, driver, runner>>

\* a Runner that runs post_send also after a transmission that raised
SendFail_post_send ==
    /\ pc = "generated"
    /\ LET sock1 == new_post_send(msg_sock, cur.gen, cur.node.wraps)
           r == post_send(cur.node, state, sock1, cur.msg)
       IN  /\ state' = r.st
           /\ msg_sock' = r.sock
    /\ pc' = "failed"
    /\ last' = "send raised"
    /\ UNCHANGED <<public_key, private_key, cur, wire, before, steps, log,
                   driver, runner>>

\* the transmission raises (the socket fails): post_send is not reached
SendFail ==
    /\ pc = "generated"
    /\ pc' = "failed"
    /\ last' = "send raised"
    /\ UNCHANGED <<state, msg_sock, public_key, private_key, cur, wire,
                   before, steps, log, driver, runner>>

\* node.post_send(state), wrappers included
PostSend ==
    /\ pc = "sent"
    /\ LET sock1 == new_post_send(msg_sock, cur.gen, cur.node.wraps)
           r == post_send(cur.node, state, sock1, cur.msg)
       IN  /\ state' = r.st
           /\ msg_sock' = r.sock
           /\ pc' = IF r.raised THEN "failed" ELSE "ready"
           /\ last' = IF r.raised THEN "post_send raised" ELSE "post_send"
    /\ UNCHANGED <<public_key, private_key, cur, wire, before, steps, log,
                   driver, runner>>

\* node.process(state) of a Command
Command(c) ==
    /\ pc = "ready"
    /\ steps < MaxNodes
    /\ LET r == process(c, state, msg_sock, wire)
       IN  /\ state' = r.st
           /\ msg_sock' = r.sock
           /\ wire' = r.wire
           /\ pc' = IF r.raised THEN "failed" ELSE "ready"
    /\ last' = c.cmd
    /\ steps' = steps + 1
    /\ UNCHANGED <<public_key, private_key, cur, before, log, driver, runner>>

\* node.process(state) of a CopyVariables; c.payload holds the names
CopyVariables(c) ==
    /\ pc = "ready"
    /\ steps < MaxNodes
    /\ LET r == CopyVariables_process(c.payload, state, log)
       IN  /\ log' = r.log
           /\ pc' = IF r.raised THEN "failed" ELSE "ready"
    /\ last' = "CopyVariables"
    /\ steps' = steps + 1
    /\ UNCHANGED <<state, msg_sock, public_key, private_key, cur, wire,
                   before, driver, runner>>

\* an Expectation the peer's message does not match: AssertionError
ExpectFail ==
    /\ pc = "ready"
    /\ steps < MaxNodes
    /\ pc' = "failed"
    /\ last' = "Expect raised"
    /\ steps' = steps + 1
    /\ UNCHANGED <<state, msg_sock, public_key, private_key, cur, wire,
                   before, log, driver, runner>>

\* an Expectation that matched a handshake message of the peer: the
\* message joins the transcript and what it negotiates is stored
\* (e.record_size_limit is 0 when the peer sent no record_size_limit); in
\* TLS 1.3 the application traffic keys are then pending
Expect(e) ==
    /\ pc = "ready"
    /\ steps < MaxNodes
    /\ msg_sock.connected
    /\ state' =
         [state EXCEPT
            !.handshake_hashes = update(@, e.bytes),
            !.handshake_messages =
                Append(@, HandshakeMsg(e.bytes[1],
                                       SubSeq(e.bytes, 5, Len(e.bytes)))),
            !.version = e.version,
            !.cipher = e.cipher,
            !.server_random = <<9>>,
            !.extended_master_secret = e.extended_master_secret,
            !.resuming = e.resuming,
            !.our_record_size_limit =
                IF e.record_size_limit # 0 THEN e.record_size_limit ELSE @,
            !.peer_record_size_limit =
                IF e.record_size_limit # 0 THEN e.record_size_limit ELSE @,
            !.key = IF e.version >= TLS13
                    THEN setattr(setattr(setattr(setattr(state.key,
                            "DH shared secret", <<8>>),
                            "PSK secret", <<0>>),
                            "client handshake traffic secret", <<6>>),
                            "master secret", <<7>>)
                    ELSE state.key]
    /\ msg_sock' =
         IF e.version >= TLS13
         THEN LET keys == <<7>> \o Digest(<<7>> \o state.handshake_hashes
                                              \o e.bytes)
              IN  [msg_sock EXCEPT !.pendingWriteState = keys,
                                   !.pendingReadState = keys]
         ELSE msg_sock
    /\ last' = "Expect"
    /\ steps' = steps + 1
    /\ UNCHANGED <<public_key, private_key, pc, cur, wire, before, log,
                   driver, runner>>

---------------------------------------------------------------------------
(* The conversations explored.                                             *)

Sub1 == Dict(<< <<-1, 7>> >>)
Xor1 == Dict(<< <<0, 1>> >>)
SubHi == Dict(<< <<0, 255>> >>)

RandomBytes == {1, 200}

NoCur == Cur(Node("none"), NoAttrs, NoMessage)

\* no conversation tree: the nodes are given one by one
NoRunner == [tree |-> <<>>, node |-> 0, inbox |-> <<>>]

---------------------------------------------------------------------------
(* The driver script: main() selects the conversations of the batch, runs  *)
(* a Runner on each and counts the outcomes.                               *)

\* the exit status of a process that has not ended
Running == -1

\* main()'s locals; started is TRUE between the call of runner.run() and
\* its return or exception, i is the position of the loop in
\* ordered_tests, executed the names runner.run() was called for.
\* repeats is the number of runs of each conversation (1 in the scripts
\* that have no --repeat) and rep the runs made of the current one;
\* uniqueness says that the script ends with uniqueness_check, whose
\* result is failed_tests; status is the exit status
Driver(run_only, run_exclude, num_limit, ordered_tests) ==
    [run_only |-> run_only, run_exclude |-> run_exclude,
     num_limit |-> num_limit, ordered_tests |-> ordered_tests,
     i |-> 1, started |-> FALSE,
     good |-> 0, bad |-> 0, failed |-> <<>>, executed |-> <<>>,
     repeats |-> 1, rep |-> 0, uniqueness |-> FALSE,
     failed_tests |-> <<>>, status |-> Running]

\* no batch: a conversation run on its own
NoDriver == Driver({}, {}, 0, <<>>)

\* one node of a conversation: a Command, a CopyVariables, an Expectation
\* or a Generator
Step(kind, node) == [kind |-> kind, node |-> node]

ServerHello(version, cipher) ==
    [bytes |-> <<2, 0, 0, 1, version>>, version |-> version,
     cipher |-> cipher, extended_master_secret |-> FALSE,
     resuming |-> FALSE, record_size_limit |-> 0]

\* the conversations dict of main(): a handshake start that logs what is
\* defined, a conversation that logs a name not defined yet, and a
\* TLS 1.3 probe
conversations ==
    LET connect == Step("Command", Cmd("Connect", <<TLS12>>, <<>>))
        hello == Step("Generator", Node("ClientHello"))
    IN  [name \in {"sanity", "undefined name", "probe"} |->
           CASE name = "sanity" ->
                  <<connect, hello,
                    Step("Expectation",
                         ServerHello(TLS12, TLS_RSA_WITH_AES_128_CBC_SHA)),
                    Step("CopyVariables",
                         Cmd("CopyVariables",
                             <<"ServerHello.random", "premaster_secret">>,
                             <<>>))>>
             [] name = "undefined name" ->
                  <<connect,
                    Step("CopyVariables",
                         Cmd("CopyVariables",
                             <<"ServerHello.random", "DH shared secret">>,
                             <<>>))>>
             [] OTHER ->
                  <<connect, hello,
                    Step("Expectation",
                         ServerHello(TLS13, TLS_AES_128_GCM_SHA256)),
                    Step("CopyVariables",
                         Cmd("CopyVariables", <<"DH shared secret">>, <<>>)),
                    Step("Generator", Node("Finished"))>>]

\* random.sample(population, k): k different elements in any order
sample(population, k) ==
    {t \in [1..k -> population] : \A a, b \in 1..k : t[a] = t[b] => a = b}

min(a, b) == IF a < b THEN a ELSE b

\* ordered_tests as main() builds it from the -n option
OrderedTests(num_limit) ==
    LET limit == IF num_limit = 0 THEN Cardinality(DOMAIN conversations)
                 ELSE num_limit
        regular_tests == DOMAIN conversations \ {"sanity"}
    IN  {<<"sanity">> \o sampled_tests \o <<"sanity">> :
           sampled_tests \in sample(regular_tests,
                                    min(limit, Cardinality(regular_tests)))}

\* the test of the loop that skips a conversation
Skipped(c_name) ==
    \/ driver.run_only # {} /\ c_name \notin driver.run_only
    \/ c_name \in driver.run_exclude

InLoop ==
    /\ ~driver.started
    /\ driver.i <= Len(driver.ordered_tests)
    /\ driver.status = Running

c_name == driver.ordered_tests[driver.i]

c_test == conversations[c_name]

\* the loop passes over a conversation that is not selected
Continue ==
    /\ InLoop
    /\ Skipped(c_name) \/ driver.repeats = 0
    /\ driver' = [driver EXCEPT !.i = @ + 1]
    /\ last' = "continue"
    /\ UNCHANGED <<state, msg_sock, public_key, private_key, pc, cur, wire,
                   before, steps, log, runner>>

\* runner = Runner(c_test) and the entry of runner.run(): a new
\* ConnectionState, no socket yet
RunnerRun ==
    /\ InLoop
    /\ ~Skipped(c_name)
    /\ driver.rep < driver.repeats
    /\ driver' = [driver EXCEPT !.started = TRUE,
                                !.executed = Append(@, c_name)]
    /\ state' = NewConnectionState
    /\ msg_sock' = NoSocket
    /\ public_key' = <<>>
    /\ private_key' = <<>>
    /\ pc' = "ready"
    /\ cur' = NoCur
    /\ wire' = <<>>
    /\ before' = AllHooks(NoSocket, <<>>, <<>>)
    /\ steps' = 0
    /\ last' = "Runner"
    /\ UNCHANGED <<log, runner>>

\* the Runner is at a node of the given kind
AtNode(kind) ==
    /\ driver.started
    /\ steps < Len(c_test)
    /\ c_test[steps + 1].kind = kind

this_node == c_test[steps + 1].node

\* a driver that stops the batch at the first conversation that failed
Record_abort ==
    /\ driver.started
    /\ pc = "failed" \/ (pc = "ready" /\ steps = Len(c_test))
    /\ driver' =
         IF pc # "failed"
         THEN [driver EXCEPT !.good = @ + 1, !.i = @ + 1,
                             !.started = FALSE]
         ELSE [driver EXCEPT !.bad = @ + 1, !.failed = Append(@, c_name),
                             !.i = Len(driver.ordered_tests) + 1,
                             !.started = FALSE]
    /\ last' = "record"
    /\ UNCHANGED <<state, msg_sock, public_key, private_key, pc, cur, wire,
                   before, steps, log, runner>>

\* runner.run() returned or raised: except Exception catches whatever it
\* raised, and the outcome is counted; after the last repeat the loop
\* goes to the next entry of ordered_tests
Record ==
    /\ driver.started
    /\ pc = "failed" \/ (pc = "ready" /\ steps = Len(c_test))
    /\ LET res == pc # "failed"
           more == driver.rep + 1 < driver.repeats
           counted ==
             IF res
             THEN [driver EXCEPT !.good = @ + 1, !.started = FALSE]
             ELSE [driver EXCEPT !.bad = @ + 1,
                                 !.failed = Append(@, c_name),
                                 !.started = FALSE]
       IN  driver' =
             IF more THEN [counted EXCEPT !.rep = @ + 1]
             ELSE [counted EXCEPT !.rep = 0, !.i = @ + 1]
    /\ last' = "record"
    /\ UNCHANGED <<state, msg_sock, public_key, private_key, pc, cur, wire,
                   before, steps, log, runner>>

\* a driver that always ends with status 0
Exit_zero(failed_tests) ==
    /\ ~driver.started
    /\ driver.i > Len(driver.ordered_tests)
    /\ driver.status = Running
    /\ failed_tests # <<>> => driver.uniqueness
    /\ driver' = [driver EXCEPT !.failed_tests = failed_tests,
                                !.status = 0]
    /\ last' = "exit"
    /\ UNCHANGED <<state, msg_sock, public_key, private_key, pc, cur, wire,
                   before, steps, log, runner>>

\* the end of main() after the loop: sys.exit(1) if bad > 0, or if the
\* uniqueness_check of the script that has one named failed tests;
\* else main() returns and the status is 0
Exit(failed_tests) ==
    /\ ~driver.started
    /\ driver.i > Len(driver.ordered_tests)
    /\ driver.status = Running
    /\ failed_tests # <<>> => driver.uniqueness
    /\ driver' = [driver EXCEPT
                    !.failed_tests = failed_tests,
                    !.status = IF driver.bad > 0 \/ failed_tests # <<>>
                               THEN 1 ELSE 0]
    /\ last' = "exit"
    /\ UNCHANGED <<state, msg_sock, public_key, private_key, pc, cur, wire,
                   before, steps, log, runner>>

Init ==
    /\ state = NewConnectionState
    /\ msg_sock = NoSocket
    /\ public_key = <<>>
    /\ private_key = <<>>
    /\ pc = "ready"
    /\ cur = NoCur
    /\ wire = <<>>
    /\ before = AllHooks(NoSocket, <<>>, <<>>)
    /\ last = "init"
    /\ steps = 0
    /\ log = NoLog
    /\ runner = NoRunner
    /\ driver = NoDriver

Commands ==
    {Cmd("Connect", <<TLS12>>, <<>>), Cmd("Close", <<>>, <<>>),
     Cmd("ResetHandshakeHashes", <<>>, <<>>),
     Cmd("ResetRenegotiationInfo", <<>>, <<>>),
     Cmd("PlaintextMessageGenerator", <<21, 2, 40>>, <<>>)}

Expectations ==
    {[bytes |-> <<2, 0, 0, 1, TLS12>>, version |-> TLS12,
      cipher |-> TLS_RSA_WITH_AES_128_CBC_SHA,
      extended_master_secret |-> FALSE, resuming |-> FALSE,
      record_size_limit |-> l] : l \in {0, 64}}
    \cup
    {[bytes |-> <<2, 0, 0, 1, TLS13>>, version |-> TLS13,
      cipher |-> TLS_AES_128_GCM_SHA256,
      extended_master_secret |-> FALSE, resuming |-> FALSE,
      record_size_limit |-> 0]}

Generators ==
    {Node(g) : g \in {"ClientHello", "ClientKeyExchange", "Finished",
                      "ChangeCipherSpec", "Heartbeat"}}
    \cup {[Node(g) EXCEPT !.payload = <<1, 0>>] :
            g \in {"Alert", "ApplicationData", "CertificateVerify"}}
    \cup {[Node("RawMessage") EXCEPT !.version = CT_handshake,
                                     !.payload = <<1, 0, 0, 0>>]}

Next ==
    \/ \E c \in Commands : Command(c)
    \/ \E e \in Expectations : Expect(e)
    \/ \E node \in Generators : \E rnd \in {1} : Generate(node, rnd, MaxNodes)
    \/ Send
    \/ SendFail
    \/ PostSend

Spec == Init /\ [][Next]_vars

---------------------------------------------------------------------------
(* Conversations of wrapped Generators, on a connection whose handshake    *)
(* (TLS 1.2, RSA key exchange, a CBC cipher) is over: records are MACed,   *)
(* padded and encrypted.                                                   *)

EstablishedState ==
    [NewConnectionState EXCEPT
        !.cipher = TLS_RSA_WITH_AES_128_CBC_SHA,
        !.client_random = <<0, 0>>,
        !.server_random = <<9>>,
        !.key = [k \in DOMAIN NewConnectionState.key |->
                    IF k = "premaster_secret" THEN <<3, 3>>
                    ELSE IF k = "master_secret" THEN <<1, TLS12, 3, 3>>
                    ELSE <<3, 1, 1>>]]

EstablishedSocket ==
    [MessageSocket(TLS12) EXCEPT !.writeState = <<5, 1, 1>>,
                                 !.readState = <<5, 1, 1>>]

InitWrap ==
    /\ state = EstablishedState
    /\ msg_sock = EstablishedSocket
    /\ public_key = <<>>
    /\ private_key = <<>>
    /\ pc = "ready"
    /\ cur = NoCur
    /\ wire = <<>>
    /\ before = AllHooks(EstablishedSocket, <<>>, <<>>)
    /\ last = "init"
    /\ steps = 0
    /\ log = NoLog
    /\ runner = NoRunner
    /\ driver = NoDriver

SpecPairs == {<<None, None>>, <<EmptyDict, EmptyDict>>, <<Sub1, None>>,
              <<None, Xor1>>}

\* the wrappers put alone on a Generator
Singles ==
    {Wrapper(w, p[1], p[2], 0) :
        w \in {"fuzz_message", "fuzz_mac", "fuzz_plaintext",
               "fuzz_encrypted_message"},
        p \in SpecPairs}
    \cup {Wrapper("fuzz_padding", p[1], p[2], m) :
            p \in SpecPairs, m \in {MinLengthNone, 2}}
    \cup {Wrapper("replace_plaintext", None, None, 1)}
    \cup {Wrapper("pad_handshake", None, None, n) : n \in {-1, 0, 1}}

\* the wrappers layered two deep
Layered ==
    {Wrapper(w, p[1], p[2], 0) :
        w \in {"fuzz_mac", "fuzz_plaintext", "fuzz_encrypted_message"},
        p \in {<<Sub1, None>>, <<EmptyDict, EmptyDict>>}}
    \cup {Wrapper("fuzz_padding", p[1], p[2], MinLengthNone) :
            p \in {<<Sub1, None>>, <<EmptyDict, EmptyDict>>}}

WrappedNodes ==
    LET app == [Node("ApplicationData") EXCEPT !.payload = <<1, 0>>]
        hello == Node("ClientHello")
    IN  {app}
        \cup {[n EXCEPT !.wraps = <<f>>] : n \in {app, hello}, f \in Singles}
        \cup {[app EXCEPT !.wraps = <<f, g>>] : f \in Layered, g \in Layered}

\* Generators that fuzz the padding of an RSA operation themselves
KeyNodes ==
    {[Node("ClientKeyExchange") EXCEPT !.padding_subs = p[1],
                                       !.padding_xors = p[2]] :
        p \in SpecPairs \cup {<<SubHi, None>>}}
    \cup {[Node("CertificateVerify") EXCEPT !.padding_subs = p[1],
                                            !.padding_xors = p[2],
                                            !.opt = o] :
            p \in SpecPairs, o \in BOOLEAN}

NextWrap ==
    \/ \E node \in WrappedNodes \cup KeyNodes : \E rnd \in RandomBytes :
          Generate(node, rnd, MaxWrapped)
    \/ Send
    \/ SendFail
    \/ PostSend

SpecWrap == InitWrap /\ [][NextWrap]_vars

---------------------------------------------------------------------------
(* The one-shot scope of the wrappers (C1 - C7).                           *)

SocketHooksBefore ==
    [calculateMAC |-> before.calculateMAC, addPadding |-> before.addPadding,
     send |-> before.send]

\* the message of cur as the unwrapped Generator returns it
PlainMessage == [cur.msg EXCEPT !.postWrite = <<>>, !.write = <<>>]

\* what the unwrapped Generator would have put on the wire
PlainWire ==
    sendRecord(SocketHooksBefore, msg_sock.writeState, Write(PlainMessage))

WrappedBy(ws) ==
    /\ Len(cur.node.wraps) = Len(ws)
    /\ \A i \in 1..Len(ws) : cur.node.wraps[i].w \in ws[i]

\* C1: after generate, a successful send and post_send of a Generator
\* wrapped with fuzz_encrypted_message, the record socket's send is again
\* the function it was before generate.
C1_RecordSocketSendRestored ==
    (last = "post_send" /\ WrappedBy(<<{"fuzz_encrypted_message"}>>))
        => msg_sock.recordSocket.send = before.send

\* C2: after generate, a successful send and post_send of a Generator
\* wrapped by exactly one of fuzz_mac, fuzz_padding, fuzz_plaintext,
\* replace_plaintext, calculateMAC and addPadding are again the functions
\* they were before generate.
C2_MacAndPaddingRestored ==
    (last = "post_send" /\ WrappedBy(<<{"fuzz_mac"} \cup AddPaddingWrappers>>))
        => /\ msg_sock.calculateMAC = before.calculateMAC
           /\ msg_sock.addPadding = before.addPadding

\* a fuzz_padding wrapper changed the record it was put on and post_send ran
C2_Witness ==
    /\ last = "post_send"
    /\ WrappedBy(<<{"fuzz_padding"}>>)
    /\ ~IsEmptySpec(cur.node.wraps[1].substitutions)
    /\ wire # PlainWire
    /\ msg_sock.addPadding = before.addPadding

\* C3: when the transmission raises, the hooks a wrapper's generate put on
\* the socket are reverted all the same.
C3_RevertedOnFailedSend ==
    (last = "send raised" /\ Hooking(cur.node) # {})
        => Hooks(msg_sock) = SocketHooksBefore

\* C4: two wrappers layered on one Generator (fuzz_mac over fuzz_padding, or
\* fuzz_plaintext over fuzz_padding) both act on the one message, and after
\* post_send every hooked method is the function it was before generate.
C4_ComposedAndRestored ==
    (last = "post_send"
       /\ WrappedBy(<<{"fuzz_padding"}, {"fuzz_mac", "fuzz_plaintext"}>>))
        => LET f == cur.node.wraps[1]
               g == cur.node.wraps[2]
               both ==
                 [calculateMAC |->
                      IF g.w = "fuzz_mac" THEN Append(before.calculateMAC, g)
                      ELSE before.calculateMAC,
                  addPadding |->
                      IF g.w = "fuzz_mac" THEN Append(before.addPadding, f)
                      ELSE Append(Append(before.addPadding, f), g),
                  send |-> before.send]
           IN  /\ wire = sendRecord(both, msg_sock.writeState,
                                    Write(cur.msg))
               /\ Hooks(msg_sock) = SocketHooksBefore

NoOpWrapper(f) ==
    /\ IsEmptySpec(f.substitutions)
    /\ IsEmptySpec(f.xors)
    /\ f.w # "replace_plaintext"
    /\ f.w = "fuzz_padding" => f.arg = MinLengthNone
    /\ f.w = "pad_handshake" => f.arg = 0

\* C5: a Generator under one wrapper whose substitutions and xors are empty
\* puts the same bytes on the wire as the unwrapped Generator.
C5_NoOpFaithful ==
    (last = "send" /\ Len(cur.node.wraps) = 1
       /\ NoOpWrapper(cur.node.wraps[1]))
        => wire = PlainWire

\* C6: the override of the public key's _addPKCS1Padding is gone when
\* ClientKeyExchangeGenerator's encryption is left, also by an exception.
C6_PKCS1PaddingRestored ==
    (cur.node.gen = "ClientKeyExchange"
       /\ last \in {"generate", "generate raised"})
        => public_key = before.addPKCS1Padding

\* C7: the replacement of private_key._rawPrivateKeyOp is undone when
\* CertificateVerifyGenerator.generate returns and when private_key.sign
\* raises.
C7_RawPrivateKeyOpRestored ==
    (cur.node.gen = "CertificateVerify"
       /\ last \in {"generate", "generate raised"})
        => private_key = before.rawPrivateKeyOp

\* private_key.sign raised under a fuzzing _newRawPrivateKeyOp
C7_Witness ==
    /\ cur.node.gen = "CertificateVerify"
    /\ last = "generate raised"
    /\ cur.node.opt
    /\ ~IsEmptySpec(cur.node.padding_xors)
    /\ private_key = before.rawPrivateKeyOp

---------------------------------------------------------------------------
(* ResetHandshakeHashes and the handshake transcript (C8 - C10).           *)

\* the step taken is ResetHandshakeHashes.process
ResetStep == last' = "ResetHandshakeHashes" /\ steps' # steps

\* C8 as the specification words it: after ResetHandshakeHashes.process the
\* transcript is empty and state.key holds neither a premaster secret nor
\* a DH shared secret.
C8_ResetClearsPremaster ==
    (last = "ResetHandshakeHashes")
        => /\ state.handshake_hashes = HandshakeHashes
           /\ "premaster_secret" \notin DOMAIN state.key
           /\ "DH shared secret" \notin DOMAIN state.key

\* C8: after ResetHandshakeHashes.process the transcript is empty and
\* state.key holds neither a 'PSK secret' nor a 'DH shared secret' entry,
\* whatever handshake ran before.
C8_ResetClearsTranscriptAndSecrets ==
    (last = "ResetHandshakeHashes")
        => /\ state.handshake_hashes = HandshakeHashes
           /\ "PSK secret" \notin DOMAIN state.key
           /\ "DH shared secret" \notin DOMAIN state.key

\* the reset came after a TLS 1.3 ServerHello, which had stored both
\* secrets next to 'master secret' and had joined the transcript
C8_Witness ==
    /\ last = "ResetHandshakeHashes"
    /\ "master secret" \in DOMAIN state.key
    /\ state.handshake_messages # <<>>
    /\ state.handshake_hashes = HandshakeHashes
    /\ "DH shared secret" \notin DOMAIN state.key

ResetCleared == {"PSK secret", "DH shared secret"}

ResetChanged ==
    {"handshake_hashes", "key", "our_record_size_limit",
     "peer_record_size_limit"}

\* C9: ResetHandshakeHashes.process keeps every other entry of state.key
\* ('resumption master secret', 'master_secret', 'client_verify_data',
\* 'server_verify_data' among them), the version, the cipher, session_id,
\* resuming and every other field of the state, and the message socket with
\* its encryption state; both record size limits become 2^14.
C9_ResetFrame ==
    [][ResetStep =>
          /\ DOMAIN state'.key = DOMAIN state.key \ ResetCleared
          /\ \A k \in DOMAIN state'.key : state'.key[k] = state.key[k]
          /\ \A fld \in DOMAIN state \ ResetChanged :
                 state'[fld] = state[fld]
          /\ state'.our_record_size_limit = DefaultRecordSize
          /\ state'.peer_record_size_limit = DefaultRecordSize
          /\ msg_sock' = msg_sock
          /\ public_key' = public_key
          /\ private_key' = private_key]_vars

\* the reset came on a connection that encrypts under a negotiated record
\* size limit: the keys and the socket stay, the limits are 2^14 again
C9_Witness ==
    /\ last = "ResetHandshakeHashes"
    /\ state.key["master_secret"] # <<>>
    /\ msg_sock.connected
    /\ msg_sock.writeState # <<>>
    /\ msg_sock.recordSize # DefaultRecordSize
    /\ state.peer_record_size_limit = DefaultRecordSize

\* type, three bytes of length and as many bytes of body
WholeHandshakeMessage(b) ==
    /\ Len(b) >= 4
    /\ Len(b) - 4 = (b[2] * 65536) + (b[3] * 256) + b[4]

\* what the step appended to the transcript
Appended ==
    SubSeq(state'.handshake_hashes, Len(state.handshake_hashes) + 1,
           Len(state'.handshake_hashes))

\* C10: a step leaves the transcript alone, or is ResetHandshakeHashes and
\* empties it, or appends one whole handshake message to it: the message a
\* handshake Generator has sent (in its post_send) or the one an Expectation
\* received.  No other node changes it.
C10_TranscriptAppendOnly ==
    [][/\ ResetStep => state'.handshake_hashes = HandshakeHashes
       /\ \/ state'.handshake_hashes = state.handshake_hashes
          \/ ResetStep
          \/ /\ state'.handshake_hashes = state.handshake_hashes \o Appended
             /\ WholeHandshakeMessage(Appended)
             /\ \/ last' = "Expect"
                \/ /\ last' \in {"post_send", "post_send raised"}
                   /\ cur.node.gen \in HandshakeGenerators
                   /\ Appended = Write(cur.msg)]_vars

\* a handshake message was appended to a transcript that held one already,
\* on a connection that had been reset before
C10_Witness ==
    /\ last = "post_send"
    /\ cur.node.gen \in HandshakeGenerators
    /\ Len(state.handshake_messages) >= 2
    /\ Len(state.handshake_hashes) = Len(Write(cur.msg))

---------------------------------------------------------------------------
(* Conversations of handshake Generators, plain or under fuzz_message and  *)
(* pad_handshake, on a connection that was just opened (C11).              *)

InitHs ==
    /\ state = NewConnectionState
    /\ msg_sock = MessageSocket(TLS12)
    /\ public_key = <<>>
    /\ private_key = <<>>
    /\ pc = "ready"
    /\ cur = NoCur
    /\ wire = <<>>
    /\ before = AllHooks(MessageSocket(TLS12), <<>>, <<>>)
    /\ last = "init"
    /\ steps = 0
    /\ log = NoLog
    /\ runner = NoRunner
    /\ driver = NoDriver

HsWraps ==
    {<<>>,
     <<Wrapper("fuzz_message", Sub1, None, 0)>>,
     <<Wrapper("fuzz_message", None, Xor1, 0)>>,
     <<Wrapper("pad_handshake", None, None, 1)>>,
     <<Wrapper("pad_handshake", None, None, -1)>>,
     <<Wrapper("pad_handshake", None, None, 1),
       Wrapper("fuzz_message", Sub1, None, 0)>>}

HsNodes ==
    LET hello == Node("ClientHello")
        cke == [Node("ClientKeyExchange") EXCEPT
                    !.cipher = TLS_RSA_WITH_AES_128_CBC_SHA]
        cmk == [Node("ClientMasterKey") EXCEPT
                    !.cipher = SSL_CK_RC4_128_WITH_MD5]
        fuzz == <<Wrapper("fuzz_message", Sub1, None, 0)>>
        pad == <<Wrapper("pad_handshake", None, None, 1)>>
    IN  {hello, cke, cmk, Node("Finished"),
         [Node("Certificate") EXCEPT !.payload = <<1, 0>>],
         [Node("CertificateVerify") EXCEPT !.payload = <<1, 0>>],
         [Node("Alert") EXCEPT !.payload = <<1, 0>>]}
        \cup {[hello EXCEPT !.wraps = ws] : ws \in HsWraps}
        \cup {[n EXCEPT !.wraps = ws] : n \in {cke, cmk}, ws \in {fuzz, pad}}

NextHs ==
    \/ \E node \in HsNodes : \E rnd \in {1} : Generate(node, rnd, MaxHs)
    \/ Send
    \/ SendFail
    \/ PostSend

SpecHs == InitHs /\ [][NextHs]_vars

\* the serializations of the messages of a list, one after the other
RECURSIVE ConcatWrites(_)
ConcatWrites(msgs) ==
    IF msgs = <<>> THEN <<>>
    ELSE ConcatWrites(Front(msgs)) \o Write(msgs[Len(msgs)])

\* C11: post_send of a handshake Generator appends to the transcript the
\* bytes msg.write() gave the Transport (mutations of fuzz_message and
\* pad_handshake included) and appends the message to handshake_messages;
\* the transcript is the concatenation of the serializations of the
\* messages sent so far, in send order.
C11_TranscriptIsConcatenation ==
    [][/\ state'.handshake_hashes = ConcatWrites(state'.handshake_messages)
       /\ (last' = "post_send" /\ cur.node.gen \in HandshakeGenerators)
            => /\ state'.handshake_messages =
                      Append(state.handshake_messages, cur.msg)
               /\ state'.handshake_hashes =
                      state.handshake_hashes \o Write(cur.msg)
               /\ wire = Write(cur.msg)]_vars

\* a fuzzed handshake message went into a transcript that already held a
\* padded one
C11_Witness ==
    /\ last = "post_send"
    /\ Len(state.handshake_messages) = 3
    /\ cur.msg.write # <<>>
    /\ Write(cur.msg) # tls_write([cur.msg EXCEPT !.postWrite = <<>>])
    /\ \E i \in 1..2 : state.handshake_messages[i].postWrite # <<>>
    /\ state.handshake_hashes = ConcatWrites(state.handshake_messages)

---------------------------------------------------------------------------
(* Conversations that negotiate keys: ServerHello with or without the      *)
(* extended master secret or of TLS 1.3, ClientKeyExchange,                *)
(* CertificateVerify, ChangeCipherSpec, Finished and ResetHandshakeHashes  *)
(* on a connection that was just opened (C12 - C15).                       *)

KeyExpectations ==
    {[bytes |-> <<2, 0, 0, 1, TLS12>>, version |-> TLS12,
      cipher |-> TLS_RSA_WITH_AES_128_CBC_SHA,
      extended_master_secret |-> ems, resuming |-> FALSE,
      record_size_limit |-> 0] : ems \in BOOLEAN}
    \cup
    {[bytes |-> <<2, 0, 0, 1, TLS13>>, version |-> TLS13,
      cipher |-> TLS_AES_128_GCM_SHA256,
      extended_master_secret |-> FALSE, resuming |-> FALSE,
      record_size_limit |-> 0]}

KeyGenerators ==
    {Node("ClientKeyExchange"), Node("ChangeCipherSpec"), Node("Finished"),
     [Node("ChangeCipherSpec") EXCEPT !.opt = TRUE],
     [Node("CertificateVerify") EXCEPT !.payload = <<1, 0>>]}

NextKeys ==
    \/ Command(Cmd("ResetHandshakeHashes", <<>>, <<>>))
    \/ \E e \in KeyExpectations : Expect(e)
    \/ \E node \in KeyGenerators : \E rnd \in {1} :
          Generate(node, rnd, MaxNodes)
    \/ Send
    \/ SendFail
    \/ PostSend

SpecKeys == InitHs /\ [][NextKeys]_vars

\* the transcript up to and including the last handshake message of the
\* given type; <<>> when it holds none
RECURSIVE ThroughLast(_, _, _, _)
ThroughLast(bytes, pos, type, best) ==
    IF pos + 3 > Len(bytes) THEN SubSeq(bytes, 1, best)
    ELSE LET n == (bytes[pos + 1] * 65536) + (bytes[pos + 2] * 256)
                      + bytes[pos + 3]
         IN  ThroughLast(bytes, pos + 4 + n, type,
                         IF bytes[pos] = type THEN pos + 3 + n ELSE best)

\* the transcript as it stood when the ClientKeyExchange of this handshake
\* had been sent
ThroughClientKeyExchange == ThroughLast(state.handshake_hashes, 1, 16, 0)

\* the step is the post_send of a ChangeCipherSpecGenerator that is not
\* fake, below TLS 1.3
KeySwitchStep ==
    /\ last = "send"
    /\ last' \in {"post_send", "post_send raised"}
    /\ cur.node.gen = "ChangeCipherSpec"
    /\ ~cur.node.opt
    /\ state.version < TLS13

ExtendedMasterSecretInEffect ==
    IF cur.node.extended_master_secret = "None"
    THEN state.extended_master_secret
    ELSE cur.node.extended_master_secret = "True"

ChangeCipherSpecPostSend ==
    /\ last = "send"
    /\ last' \in {"post_send", "post_send raised"}
    /\ cur.node.gen = "ChangeCipherSpec"

\* C13: ChangeCipherSpecGenerator.post_send changes nothing of the state
\* and of the message socket when the version is TLS 1.3 or the Generator
\* is fake; otherwise the ChangeCipherSpec went out under the write state
\* of before, and post_send makes the pending write state the write state,
\* once.
C13_ChangeCipherSpecSwitch ==
    [][ChangeCipherSpecPostSend =>
          IF state.version >= TLS13 \/ cur.node.opt
          THEN /\ last' = "post_send"
               /\ state' = state
               /\ msg_sock' = msg_sock
          ELSE last' = "post_send" =>
               /\ wire = sendRecord(Hooks(msg_sock), msg_sock.writeState,
                                    Write(cur.msg))
               /\ msg_sock'.writeState =
                     IF state.resuming THEN msg_sock.pendingWriteState
                     ELSE calc_pending_states(msg_sock,
                                              state').pendingWriteState
               /\ msg_sock'.pendingWriteState = <<>>
               /\ msg_sock'.readState = msg_sock.readState]_vars

\* a ChangeCipherSpec went out in the clear and the write state is keyed
\* after its post_send
C13_Witness ==
    /\ last = "post_send"
    /\ cur.node.gen = "ChangeCipherSpec"
    /\ ~cur.node.opt
    /\ state.version < TLS13
    /\ wire = Write(cur.msg)
    /\ msg_sock.writeState # <<>>
    /\ msg_sock.writeState = msg_sock.pendingReadState

\* the step is the post_send of a FinishedGenerator
FinishedPostSend ==
    /\ last = "send"
    /\ last' = "post_send"
    /\ cur.node.gen = "Finished"

\* C14: FinishedGenerator.post_send in TLS 1.3 appends the client Finished
\* to the transcript, makes the pending write state the write state, once,
\* and stores a 'resumption master secret' derived from the transcript
\* that holds the client Finished; at TLS 1.2 or below it changes nothing of
\* the message socket and nothing of state.key.
C14_FinishedPostSend ==
    [][FinishedPostSend =>
          /\ state'.handshake_hashes =
                 state.handshake_hashes \o Write(cur.msg)
          /\ IF state.version >= TLS13
             THEN /\ msg_sock'.writeState = msg_sock.pendingWriteState
                  /\ msg_sock'.pendingWriteState = <<>>
                  /\ msg_sock'.readState = msg_sock.readState
                  /\ state'.key =
                        setattr(state.key, "resumption master secret",
                                derive_secret(state.key["master secret"], 9,
                                    state.handshake_hashes
                                        \o Write(cur.msg)))
             ELSE /\ msg_sock' = msg_sock
                  /\ state'.key = state.key]_vars

\* the client Finished of TLS 1.3 was sent: the write state is the one that
\* was pending and the resumption master secret is stored
C14_Witness ==
    /\ last = "post_send"
    /\ cur.node.gen = "Finished"
    /\ state.version >= TLS13
    /\ msg_sock.writeState # <<>>
    /\ msg_sock.writeState = msg_sock.pendingReadState
    /\ "resumption master secret" \in DOMAIN state.key

\* C15: a Generator node goes through generate, the transmission and
\* post_send, in that order and once each; the bytes on the wire are made
\* from the state generate left, post_send changes them no more, and after
\* a transmission that raised nothing runs, post_send included.
C15_GenerateSendPostSend ==
    [][/\ last = "generate" => last' \in {"send", "send raised"}
       /\ last = "send" => last' \in {"post_send", "post_send raised"}
       /\ last \notin {"send raised", "generate raised", "post_send raised"}
       /\ last' \in {"send", "send raised"}
            => /\ last = "generate"
               /\ state' = state
               /\ msg_sock' = msg_sock
               /\ cur' = cur
       /\ last' = "send"
            => wire' = sendRecord(Hooks(msg_sock), msg_sock.writeState,
                                  Write(cur.msg))
       /\ last' \in {"post_send", "post_send raised"}
            => /\ last = "send"
               /\ wire' = wire
               /\ cur' = cur]_vars

\* the client Finished of TLS 1.3 is in the transcript and the write state
\* is keyed, and the Finished went out in the clear
C15_Witness ==
    /\ last = "post_send"
    /\ cur.node.gen = "Finished"
    /\ msg_sock.writeState # <<>>
    /\ wire = Write(cur.msg)
    /\ state.handshake_hashes # <<>>
    /\ state.handshake_hashes = ConcatWrites(state.handshake_messages)

---------------------------------------------------------------------------
(* Batches of a driver script: every choice of probe names, of -e          *)
(* exclusions and of the -n limit, every sample and every outcome of the   *)
(* conversations (C16 - C20).                                              *)

\* the largest -n given
MaxLimit == 2

InitDriver ==
    /\ state = NewConnectionState
    /\ msg_sock = NoSocket
    /\ public_key = <<>>
    /\ private_key = <<>>
    /\ pc = "ready"
    /\ cur = NoCur
    /\ wire = <<>>
    /\ before = AllHooks(NoSocket, <<>>, <<>>)
    /\ last = "init"
    /\ steps = 0
    /\ log = NoLog
    /\ runner = NoRunner
    /\ \E run_only \in SUBSET DOMAIN conversations :
       \E run_exclude \in SUBSET DOMAIN conversations :
       \E num_limit \in 0..MaxLimit :
       \E ordered_tests \in OrderedTests(num_limit) :
          driver = Driver(run_only, run_exclude, num_limit, ordered_tests)

NextDriver ==
    \/ Continue
    \/ RunnerRun
    \/ AtNode("Command") /\ Command(this_node)
    \/ AtNode("CopyVariables") /\ CopyVariables(this_node)
    \/ AtNode("Expectation") /\ Expect(this_node)
    \/ AtNode("Expectation") /\ ExpectFail
    \/ AtNode("Generator") /\ Generate(this_node, 1, MaxNodes)
    \/ Send
    \/ SendFail
    \/ PostSend
    \/ Record

SpecDriver == InitDriver /\ [][NextDriver]_vars

\* the names of a CopyVariables node that are not defined when it runs
Undefined(items, st) ==
    {k \in 1..Len(items) :
        /\ items[k] \notin {"ClientHello.random", "ServerHello.random",
                             "ServerHello.session_id"}
        /\ items[k] \notin DOMAIN st.key}

CopyVariablesStep == last' = "CopyVariables" /\ steps' # steps

\* C16: CopyVariables.process given a name that is none of
\* ClientHello.random, ServerHello.random, ServerHello.session_id and is
\* not a key of state.key raises, and the array of that name is left as it
\* was: nothing is appended for it, no default either; when every name is
\* defined, each array gets its value and nothing is raised.
C16_UndefinedNameRaises ==
    [][CopyVariablesStep =>
          LET items == this_node.payload
          IN  IF Undefined(items, state) # {}
              THEN /\ pc' = "failed"
                   /\ \A k \in Undefined(items, state) :
                         log'[items[k]] = log[items[k]]
              ELSE /\ pc' = "ready"
                   /\ \A k \in 1..Len(items) :
                         Len(log'[items[k]]) = Len(log[items[k]]) + 1]_vars

\* the conversation that logs a name not defined yet has raised, after
\* the array of the name before it got its value
C16_Witness ==
    /\ driver.started
    /\ c_name = "undefined name"
    /\ last = "CopyVariables"
    /\ pc = "failed"
    /\ log["DH shared secret"] = <<>>
    /\ log["ServerHello.random"] # <<>>

\* runner.run() is over and main() counts its outcome
RecordStep == driver.started /\ ~driver'.started

\* the conversation ended by the ValueError of a CopyVariables
LookupFailure == pc = "failed" /\ last = "CopyVariables"

\* C17: a state-lookup failure raised while a conversation runs is not
\* counted as an ordinary failed conversation: the driver does not answer
\* it with bad += 1, the name added to failed and the next conversation.
C17_LookupFailureNotRecorded ==
    [][RecordStep /\ LookupFailure =>
          ~(/\ driver'.bad = driver.bad + 1
            /\ driver'.failed = Append(driver.failed, c_name)
            /\ driver'.i = driver.i + 1)]_vars

\* C18: the step of a Command hands no bytes to the socket; the bytes on
\* the wire change in the transmission of a Generator only (checked on the
\* single conversations of Spec).
C18_CommandsDoNotTransmit ==
    [][/\ (last' \in {c.cmd : c \in Commands} /\ steps' # steps)
            => wire' = wire
       /\ wire' # wire => last' = "send"]_vars

\* the loop over ordered_tests is over
BatchDone == ~driver.started /\ driver.i > Len(driver.ordered_tests)

\* C19: when a batch is over, the first and the last conversation that
\* were run are both sanity, whatever names were selected or excluded and
\* whatever the limit of the sample.
C19_SanityFirstAndLast ==
    (BatchDone /\ driver.executed # <<>>) =>
        /\ driver.executed[1] = "sanity"
        /\ driver.executed[Len(driver.executed)] = "sanity"

\* the conversations of a part of ordered_tests that the loop does not skip
Selected(tests) == SelectSeq(tests, LAMBDA t : ~Skipped(t))

\* C20: a conversation whose runner.run() failed is counted in bad and
\* named in failed, one that passed is counted in good, and in both cases
\* the loop goes on with the next entry of ordered_tests: at every moment
\* the conversations run are all the selected ones up to the position of
\* the loop, so that a finished batch has run every selected conversation,
\* the trailing sanity included.
C20_FailureDoesNotStopBatch ==
    /\ [](driver.executed =
            Selected(SubSeq(driver.ordered_tests, 1,
                            IF driver.started THEN driver.i
                            ELSE driver.i - 1)))
    /\ [][RecordStep =>
            /\ driver'.i = driver.i + 1
            /\ driver'.ordered_tests = driver.ordered_tests
            /\ IF pc = "failed"
               THEN /\ driver'.bad = driver.bad + 1
                    /\ driver'.failed = Append(driver.failed, c_name)
                    /\ driver'.good = driver.good
               ELSE /\ driver'.good = driver.good + 1
                    /\ driver'.bad = driver.bad
                    /\ driver'.failed = driver.failed]_vars

\* the leading sanity failed, and the two other conversations and the
\* trailing sanity were run all the same, one of them with success
C20_Witness ==
    /\ BatchDone
    /\ Len(driver.executed) = 4
    /\ driver.failed # <<>>
    /\ driver.failed[1] = "sanity"
    /\ driver.executed[1] = "sanity"
    /\ driver.executed[4] = "sanity"
    /\ driver.good >= 1

---------------------------------------------------------------------------
(* Batches run to the exit of the script, with and without --repeat and    *)
(* the final uniqueness_check (C21).                                       *)

\* the largest --repeat given
MaxRepeats == 2

InitExit ==
    /\ state = NewConnectionState
    /\ msg_sock = NoSocket
    /\ public_key = <<>>
    /\ private_key = <<>>
    /\ pc = "ready"
    /\ cur = NoCur
    /\ wire = <<>>
    /\ before = AllHooks(NoSocket, <<>>, <<>>)
    /\ last = "init"
    /\ steps = 0
    /\ log = NoLog
    /\ runner = NoRunner
    /\ \E run_only \in {{}, {"sanity", "probe"}} :
       \E run_exclude \in {{}, {"undefined name"}} :
       \E ordered_tests \in OrderedTests(1) :
       \E uniqueness \in BOOLEAN :
       \E repeats \in (IF uniqueness THEN 0..MaxRepeats ELSE {1}) :
          driver = [Driver(run_only, run_exclude, 1, ordered_tests)
                       EXCEPT !.repeats = repeats,
                              !.uniqueness = uniqueness]

NextExit ==
    \/ NextDriver
    \/ \E failed_tests \in {<<>>, <<"ServerHello.random">>} :
          Exit(failed_tests)

SpecExit == InitExit /\ [][NextExit]_vars

\* the conversation runs whose outcome is counted
Counted ==
    IF driver.started
    THEN SubSeq(driver.executed, 1, Len(driver.executed) - 1)
    ELSE driver.executed

\* the statement without the uniqueness_check: status 1 exactly when a
\* run failed
C21_ExitStatusFromRunsOnly ==
    driver.status # Running =>
        /\ driver.status = (IF driver.bad > 0 THEN 1 ELSE 0)
        /\ driver.good + driver.bad = Len(driver.executed)
        /\ Len(driver.failed) = driver.bad

\* C21: the exit status is 1 if a conversation run failed, and in a
\* script without uniqueness_check it is 0 if every run passed; in the
\* script that ends with uniqueness_check it is 0 if every run passed and
\* the check named no failed test, and 1 otherwise.  At every moment good
\* + bad is the number of runs whose outcome is counted and failed has bad
\* entries, each the name of a conversation that was run.
C21_ExitStatus ==
    /\ driver.good + driver.bad = Len(Counted)
    /\ Len(driver.failed) = driver.bad
    /\ \A k \in 1..Len(driver.failed) :
          \E j \in 1..Len(Counted) : Counted[j] = driver.failed[k]
    /\ driver.status # Running =>
          /\ ~driver.started
          /\ driver.status \in {0, 1}
          /\ driver.status = 1 <=>
                (driver.bad > 0 \/ driver.failed_tests # <<>>)
          /\ ~driver.uniqueness => driver.failed_tests = <<>>

\* a script without uniqueness_check has ended with status 1 after a run
\* that passed and a run that failed
C21_Witness ==
    /\ driver.status = 1
    /\ ~driver.uniqueness
    /\ driver.good >= 1
    /\ driver.bad >= 1

\* the entries of ordered_tests between the two sanity entries
sampled_tests ==
    SubSeq(driver.ordered_tests, 2, Len(driver.ordered_tests) - 1)

\* C22: for every -n num >= 0 the batch holds at most num conversations
\* other than sanity, each once, and sanity first and last besides them.
C22_AtMostNumSelected ==
    /\ Len(driver.ordered_tests) >= 2
    /\ driver.ordered_tests[1] = "sanity"
    /\ driver.ordered_tests[Len(driver.ordered_tests)] = "sanity"
    /\ Len(sampled_tests) <= driver.num_limit
    /\ \A a, b \in 1..Len(sampled_tests) :
          /\ sampled_tests[a] # "sanity"
          /\ sampled_tests[a] = sampled_tests[b] => a = b

---------------------------------------------------------------------------
(* The options of a driver script: main() of test-legacy-renegotiation.py  *)
(* and of test-tls13-ecdsa-in-certificate-verify.py goes over the pairs    *)
(* getopt returned and then builds its conversations (C23, C24).           *)

\* options on one command line
MaxOpts == 3

\* port = 4433
DefaultPort == 4433

TLS_EMPTY_RENEGOTIATION_INFO_SCSV == 255

\* the name of a local that is not bound
Unbound == "<unbound>"

\* the locals of main() before the loop over opts; opts is what getopt
\* returned and argv keeps it
Main(script, opts) ==
    [script |-> script, argv |-> opts, opts |-> opts,
     host |-> IF script = "test-legacy-renegotiation.py"
              THEN "localhost" ELSE Unbound,
     hostname |-> IF script = "test-legacy-renegotiation.py"
                  THEN Unbound ELSE "localhost",
     port |-> DefaultPort, num_limit |-> 0, run_exclude |-> {},
     dhe |-> FALSE, cert |-> FALSE, private_key |-> FALSE,
     conversations |-> <<>>, status |-> Running]

\* one turn of `for opt, arg in opts` of test-legacy-renegotiation.py
legacy_renegotiation_opt(d, opt, arg) ==
    IF opt = "-h" THEN [d EXCEPT !.host = arg]
    ELSE IF opt = "-p" THEN [d EXCEPT !.port = arg]
    ELSE IF opt = "-e" THEN [d EXCEPT !.run_exclude = @ \cup {arg}]
    ELSE IF opt = "-d" THEN [d EXCEPT !.run_exclude = @ \cup {arg}]
    ELSE IF opt = "-n" THEN [d EXCEPT !.num_limit = arg]
    ELSE [d EXCEPT !.status = 1]

\* one turn of `for opt, arg in opts` of
\* test-tls13-ecdsa-in-certificate-verify.py
ecdsa_in_certificate_verify_opt(d, opt, arg) ==
    IF opt = "-h" THEN [d EXCEPT !.host = arg]
    ELSE IF opt = "-p" THEN [d EXCEPT !.port = arg]
    ELSE IF opt = "-e" THEN [d EXCEPT !.run_exclude = @ \cup {arg}]
    ELSE IF opt = "-n" THEN [d EXCEPT !.num_limit = arg]
    ELSE IF opt = "-k" THEN [d EXCEPT !.private_key = TRUE]
    ELSE IF opt = "-c" THEN [d EXCEPT !.cert = TRUE]
    ELSE [d EXCEPT !.status = 1]

\* the head of a conversation: Connect, the cipher suites of the
\* ClientHello and whether ExpectServerKeyExchange is a node
Conversation(host, port, ciphers, ske) ==
    [host |-> host, port |-> port, ciphers |-> ciphers,
     ServerKeyExchange |-> ske]

\* the sanity conversation of test-legacy-renegotiation.py
legacy_renegotiation_sanity(d) ==
    Conversation(d.host, d.port,
        IF d.dhe
        THEN <<TLS_ECDHE_RSA_WITH_AES_128_CBC_SHA,
               TLS_DHE_RSA_WITH_AES_128_CBC_SHA,
               TLS_EMPTY_RENEGOTIATION_INFO_SCSV>>
        ELSE <<TLS_RSA_WITH_AES_128_CBC_SHA,
               TLS_EMPTY_RENEGOTIATION_INFO_SCSV>>,
        d.dhe)

\* a conversation of test-tls13-ecdsa-in-certificate-verify.py
ecdsa_in_certificate_verify_conversation(d) ==
    Conversation(d.hostname, d.port,
        <<TLS_AES_128_GCM_SHA256, TLS_EMPTY_RENEGOTIATION_INFO_SCSV>>,
        FALSE)

\* the loop over opts, one pair at a time
Option ==
    /\ driver.status = Running
    /\ driver.opts # <<>>
    /\ LET opt == Head(driver.opts)[1]
           arg == Head(driver.opts)[2]
           d == [driver EXCEPT !.opts = Tail(@)]
       IN  driver' = IF driver.script = "test-legacy-renegotiation.py"
                     THEN legacy_renegotiation_opt(d, opt, arg)
                     ELSE ecdsa_in_certificate_verify_opt(d, opt, arg)
    /\ last' = "option"
    /\ UNCHANGED <<state, msg_sock, public_key, private_key, pc, cur, wire,
                   before, steps, log, runner>>

\* the conversations are built; the script of the client certificates
\* raises when no certificate or no key was given
Build ==
    /\ driver.status = Running
    /\ driver.opts = <<>>
    /\ driver.conversations = <<>>
    /\ driver' =
         IF driver.script = "test-legacy-renegotiation.py"
         THEN [driver EXCEPT !.conversations =
                                <<legacy_renegotiation_sanity(driver)>>]
         ELSE IF ~driver.cert \/ ~driver.private_key
         THEN [driver EXCEPT !.status = 1]
         ELSE [driver EXCEPT !.conversations =
                  <<ecdsa_in_certificate_verify_conversation(driver)>>]
    /\ last' = "build"
    /\ UNCHANGED <<state, msg_sock, public_key, private_key, pc, cur, wire,
                   before, steps, log, runner>>

\* the pairs getopt can return for each script
Options(script) ==
    {<<"-h", "example.org">>, <<"-p", 443>>, <<"-e", "probe">>,
     <<"-n", 1>>}
    \cup (IF script = "test-legacy-renegotiation.py"
          THEN {<<"-d", "">>}
          ELSE {<<"-k", "key.pem">>, <<"-c", "cert.pem">>})

CommandLines(script) ==
    UNION {[1..n -> Options(script)] : n \in 0..MaxOpts}

InitOpts ==
    /\ state = NewConnectionState
    /\ msg_sock = NoSocket
    /\ public_key = <<>>
    /\ private_key = <<>>
    /\ pc = "ready"
    /\ cur = NoCur
    /\ wire = <<>>
    /\ before = AllHooks(NoSocket, <<>>, <<>>)
    /\ last = "init"
    /\ steps = 0
    /\ log = NoLog
    /\ runner = NoRunner
    /\ \E script \in {"test-legacy-renegotiation.py",
                       "test-tls13-ecdsa-in-certificate-verify.py"} :
       \E opts \in CommandLines(script) :
          driver = Main(script, opts)

NextOpts ==
    \/ Option
    \/ Build

SpecOpts == InitOpts /\ [][NextOpts]_vars

\* the arguments given with an option on the command line, in order
Given(opt) ==
    LET with == SelectSeq(driver.argv, LAMBDA o : o[1] = opt)
    IN  [k \in 1..Len(with) |-> with[k][2]]

Built == driver.conversations # <<>>

\* C23: in test-legacy-renegotiation.py, -d makes the conversations offer
\* the ECDHE and DHE cipher suites and expect a ServerKeyExchange, and
\* the excluded names are those given with -e, with or without -d.
C23_DheOption ==
    (Built /\ driver.script = "test-legacy-renegotiation.py") =>
        /\ driver.run_exclude = {Given("-e")[k] : k \in 1..Len(Given("-e"))}
        /\ Given("-d") # <<>> =>
              \A k \in 1..Len(driver.conversations) :
                 /\ driver.conversations[k].ServerKeyExchange
                 /\ driver.conversations[k].ciphers[1] =
                       TLS_ECDHE_RSA_WITH_AES_128_CBC_SHA

\* C24: in test-tls13-ecdsa-in-certificate-verify.py the Connect of every
\* conversation targets the host given with -h.
C24_HostOption ==
    (Built /\ driver.script = "test-tls13-ecdsa-in-certificate-verify.py"
           /\ Given("-h") # <<>>) =>
        \A k \in 1..Len(driver.conversations) :
           driver.conversations[k].host = Given("-h")[Len(Given("-h"))]

---------------------------------------------------------------------------
(* Conversation trees as the scripts build them, and the Runner's walk     *)
(* over a tree against the messages of a peer (C25 - C29).  A tree is the  *)
(* sequence of its node objects in the order they were created; child and  *)
(* next_sibling hold the position of a node, 0 for None.                   *)

TreeNode(kind, what) ==
    [kind |-> kind, what |-> what, args |-> <<>>, child |-> 0,
     next_sibling |-> 0]

\* TreeNode.add_child: self.child = child
add_child(tree, self, child) == [tree EXCEPT ![self].child = child]

\* self.next_sibling = sibling
set_next_sibling(tree, self, sibling) ==
    [tree EXCEPT ![self].next_sibling = sibling]

\* node = node.add_child(X()) for each X of nodes in turn
RECURSIVE Chain(_, _, _)
Chain(tree, self, nodes) ==
    IF nodes = <<>> THEN tree
    ELSE LET created == Append(tree, Head(nodes))
         IN  Chain(add_child(created, self, Len(created)), Len(created),
                   Tail(nodes))

CommandNode(cmd) == TreeNode("Command", Cmd(cmd, <<>>, <<>>))

ConnectNode == TreeNode("Command", Cmd("Connect", <<TLS12>>, <<>>))

GeneratorNode(gen) == TreeNode("Generator", Node(gen))

PayloadNode(gen) ==
    TreeNode("Generator", [Node(gen) EXCEPT !.payload = <<1, 0>>])

ExpectNode(type) == TreeNode("Expectation", type)

AlertLevel_warning == 1
AlertLevel_fatal == 2
AlertDescription_close_notify == 0
AlertDescription_handshake_failure == 40
AlertDescription_bad_record_mac == 20

\* ExpectAlert(level, description)
ExpectAlertNode(level, description) ==
    [ExpectNode("Alert") EXCEPT !.args = <<level, description>>]

\* the nodes of a sanity conversation for TLS 1.2 after Connect, up to
\* ExpectAlert: with dhe a ServerKeyExchange is expected
sanity_nodes(dhe) ==
    <<GeneratorNode("ClientHello"),
      ExpectNode("ServerHello"),
      ExpectNode("Certificate")>>
    \o (IF dhe THEN <<ExpectNode("ServerKeyExchange")>> ELSE <<>>)
    \o <<ExpectNode("ServerHelloDone"),
         GeneratorNode("ClientKeyExchange"),
         GeneratorNode("ChangeCipherSpec"),
         GeneratorNode("Finished"),
         ExpectNode("ChangeCipherSpec"),
         ExpectNode("Finished"),
         PayloadNode("ApplicationData"),
         ExpectNode("ApplicationData"),
         PayloadNode("Alert"),
         ExpectNode("Alert")>>

\* a sanity conversation whose ExpectAlert has no alternate
legacy_renegotiation_tree_alert_only ==
    Chain(<<ConnectNode>>, 1, sanity_nodes(FALSE))

\* conversations["sanity"] of test-legacy-renegotiation.py; dhe is False
\* whatever the options are
legacy_renegotiation_tree ==
    LET tree == Chain(<<ConnectNode>>, 1, sanity_nodes(FALSE))
        node == Len(tree)
    IN  set_next_sibling(Append(tree, ExpectNode("Close")), node,
                         Len(tree) + 1)

\* conversations["sanity"] of test-extended-master-secret-extension.py,
\* http True
ems_sanity_tree(dhe) ==
    LET tree == Chain(<<ConnectNode>>, 1, sanity_nodes(dhe))
        node == Len(tree)
        sibling == set_next_sibling(Append(tree, ExpectNode("Close")), node,
                                    Len(tree) + 1)
    IN  Chain(sibling, node, <<CommandNode("Close")>>)

\* conversations["sanity"] of test-tls13-symetric-ciphers.py: cycle is its
\* own child and ExpectApplicationData its sibling
tls13_symetric_ciphers_tree ==
    LET head == Chain(<<ConnectNode>>, 1,
                  <<GeneratorNode("ClientHello"),
                    ExpectNode("ServerHello"),
                    ExpectNode("ChangeCipherSpec"),
                    ExpectNode("EncryptedExtensions"),
                    ExpectNode("Certificate"),
                    ExpectNode("CertificateVerify"),
                    ExpectNode("Finished"),
                    GeneratorNode("Finished"),
                    PayloadNode("ApplicationData"),
                    ExpectNode("NewSessionTicket")>>)
        cycle == Len(head)
        looped == add_child(head, cycle, cycle)
        data == Len(looped) + 1
        sibling == set_next_sibling(
                       Append(looped, ExpectNode("ApplicationData")),
                       cycle, data)
        tail == Chain(sibling, data,
                  <<PayloadNode("Alert"), ExpectNode("Alert")>>)
        node == Len(tail)
    IN  set_next_sibling(Append(tail, ExpectNode("Close")), node,
                         Len(tail) + 1)

\* a conversation whose last node has the first Connect as its child
ems_session_resume_tree_cycle ==
    LET tree == Chain(<<ConnectNode>>, 1,
                  <<GeneratorNode("ClientHello"),
                    ExpectNode("ServerHello")>>)
    IN  add_child(tree, Len(tree), 1)

\* conversations["EMS with session resume"] of
\* test-extended-master-secret-extension.py, dhe False: close, the sibling
\* of the first ExpectAlert, gets the second Connect as its child, which
\* is the child of Close too
ems_session_resume_tree ==
    LET first == Chain(<<ConnectNode>>, 1,
                  <<GeneratorNode("ClientHello"),
                    ExpectNode("ServerHello"),
                    ExpectNode("Certificate"),
                    ExpectNode("ServerHelloDone"),
                    GeneratorNode("ClientKeyExchange"),
                    GeneratorNode("ChangeCipherSpec"),
                    GeneratorNode("Finished"),
                    ExpectNode("ChangeCipherSpec"),
                    ExpectNode("Finished"),
                    PayloadNode("Alert"),
                    ExpectNode("Alert")>>)
        alert == Len(first)
        close == alert + 1
        sibling == set_next_sibling(Append(first, ExpectNode("Close")),
                                    alert, close)
        closed == Chain(sibling, alert,
                    <<ExpectNode("Close"), CommandNode("Close"),
                      ConnectNode>>)
        connect == Len(closed)
        joined == add_child(closed, close, connect)
        second == Chain(joined, connect,
                    <<CommandNode("ResetHandshakeHashes"),
                      CommandNode("ResetRenegotiationInfo"),
                      GeneratorNode("ClientHello"),
                      ExpectNode("ServerHello"),
                      ExpectNode("ChangeCipherSpec"),
                      ExpectNode("Finished"),
                      GeneratorNode("ChangeCipherSpec"),
                      GeneratorNode("Finished"),
                      PayloadNode("ApplicationData"),
                      ExpectNode("ApplicationData"),
                      PayloadNode("Alert"),
                      ExpectNode("Alert")>>)
        node == Len(second)
        last_sibling == set_next_sibling(
                            Append(second, ExpectNode("Close")), node,
                            Len(second) + 1)
    IN  Chain(last_sibling, node, <<CommandNode("Close")>>)

\* a message of the peer, or the closing of the connection by the peer
PeerMessage(type) ==
    [type |-> type, version |-> 0, cipher |-> 0,
     extended_master_secret |-> FALSE, resuming |-> FALSE,
     level |-> 0, description |-> 0]

PeerAlert(level, description) ==
    [PeerMessage("Alert") EXCEPT !.level = level,
                                 !.description = description]

PeerServerHello(version, cipher, ems, resuming) ==
    [PeerMessage("ServerHello") EXCEPT
        !.version = version, !.cipher = cipher,
        !.extended_master_secret = ems, !.resuming = resuming]

\* the handshake type of a message; 0 when it is not a handshake message
HandshakeType(type) ==
    CASE type = "ServerHello" -> 2
      [] type = "NewSessionTicket" -> 4
      [] type = "EncryptedExtensions" -> 8
      [] type = "Certificate" -> 11
      [] type = "ServerKeyExchange" -> 12
      [] type = "ServerHelloDone" -> 14
      [] type = "CertificateVerify" -> 15
      [] type = "Finished" -> 20
      [] OTHER -> 0

\* Expectation.is_match: the type of the message is the one expected
is_match(node, msg) == node.what = msg.type

Received(st, sock, raised) == [st |-> st, sock |-> sock, raised |-> raised]

\* Expectation.process of a node that matched: an Alert other than the
\* one the node asks for is an error; a handshake message joins the
\* transcript and a ServerHello sets what was negotiated.  In TLS 1.3 the
\* ServerHello puts the handshake traffic keys in use for reading and
\* writing and the peer's Finished switches the read state to the
\* application traffic keys, leaving the write keys pending; a
\* ChangeCipherSpec of TLS 1.2 or lower switches the read state
Expectation_process(node, st, sock, msg) ==
    LET bytes == <<HandshakeType(msg.type), 0, 0, 1, msg.version>>
        hashed == IF HandshakeType(msg.type) = 0 THEN st
                  ELSE [st EXCEPT
                          !.handshake_hashes = update(@, bytes),
                          !.handshake_messages =
                              Append(@, HandshakeMsg(bytes[1],
                                                     <<msg.version>>))]
    IN  IF node.args # <<>> /\ node.args # <<msg.level, msg.description>>
        THEN Received(st, sock, TRUE)
        ELSE IF msg.type = "ServerHello"
        THEN Received(
               [hashed EXCEPT
                  !.version = msg.version,
                  !.cipher = msg.cipher,
                  !.server_random = <<9>>,
                  !.extended_master_secret = msg.extended_master_secret,
                  !.resuming = msg.resuming,
                  !.key = IF msg.version >= TLS13
                          THEN setattr(setattr(setattr(setattr(st.key,
                                  "DH shared secret", <<8>>),
                                  "PSK secret", <<0>>),
                                  "client handshake traffic secret", <<6>>),
                                  "master secret", <<7>>)
                          ELSE st.key],
               IF msg.version >= TLS13
               THEN LET keys == <<7>> \o Digest(<<7>> \o st.handshake_hashes
                                                    \o bytes)
                    IN  changeReadState(changeWriteState(
                            [sock EXCEPT !.pendingWriteState = keys,
                                         !.pendingReadState = keys]))
               ELSE sock,
               FALSE)
        ELSE IF msg.type = "Finished" /\ st.version >= TLS13
        THEN LET keys == <<5>> \o Digest(<<5>> \o hashed.handshake_hashes)
             IN  Received(hashed,
                          changeReadState(
                              [sock EXCEPT !.pendingWriteState = keys,
                                           !.pendingReadState = keys]),
                          FALSE)
        ELSE IF msg.type = "ChangeCipherSpec" /\ st.version < TLS13
        THEN Received(hashed, changeReadState(sock), FALSE)
        ELSE Received(hashed, sock, FALSE)

\* the Runner on a tree: node is the node to run next, inbox what the
\* peer has still to send, peer all it sends
Runner(tree, peer) ==
    [tree |-> tree, node |-> 1, inbox |-> peer, peer |-> peer]

this == runner.tree[runner.node]

Running_ == pc = "ready" /\ runner.node # 0

\* where the Runner stands after a node: at nothing once the tree is
\* exhausted, and the conversation is done
Advance(child) ==
    /\ runner' = [runner EXCEPT !.node = child]
    /\ pc' = IF child = 0 THEN "done" ELSE "ready"

\* the conversation failed at the node the Runner stands at
Fail ==
    /\ runner' = runner
    /\ pc' = "failed"

\* one turn of Runner.run at a Command
RunCommand ==
    /\ Running_
    /\ this.kind = "Command"
    /\ IF this.what.cmd = "CopyVariables"
       THEN LET r == CopyVariables_process(this.what.payload, state, log)
            IN  /\ log' = r.log
                /\ IF r.raised THEN Fail ELSE Advance(this.child)
                /\ last' = IF r.raised THEN "Command raised" ELSE "Command"
                /\ UNCHANGED <<state, msg_sock, wire>>
       ELSE LET r == process(this.what, state, msg_sock, wire)
            IN  /\ state' = r.st
                /\ msg_sock' = r.sock
                /\ wire' = r.wire
                /\ IF r.raised THEN Fail ELSE Advance(this.child)
                /\ last' = IF r.raised THEN "Command raised" ELSE "Command"
                /\ log' = log
    /\ UNCHANGED <<public_key, private_key, cur, before, steps, driver>>

\* length of the authentication tag that ends a TLS 1.3 record
TagLength == 16

\* the record of TLS 1.3 under traffic keys: the data and its content
\* type encrypted, then the tag; the send hooks get the whole record
sendRecord_aead(hooks, msg) ==
    LET plain == Write(msg) \o <<msg.contentType>>
    IN  recordSocket_send(hooks.send,
            tls_encrypt(plain)
              \o [i \in 1..TagLength |->
                     (SumBytes(plain) + (7 * i)) % 256])

\* the record that goes out for msg
Transmit(sock, version, msg) ==
    IF version >= TLS13 /\ sock.writeState # <<>>
    THEN sendRecord_aead(Hooks(sock), msg)
    ELSE sendRecord(Hooks(sock), sock.writeState, Write(msg))

\* one turn of Runner.run at a Generator: generate, the transmission
\* (which the socket may fail) and post_send
RunGenerator(sends) ==
    /\ Running_
    /\ this.kind = "Generator"
    /\ LET node == this.what
           r == generate(node, state, public_key, private_key, msg_sock, 1)
           env == new_generate([sock |-> r.sock, gen |-> NoAttrs,
                                msg |-> r.msg], node.wraps)
           sent == sends /\ env.sock.connected /\ ~env.sock.closed
           p == post_send(node, r.st,
                          new_post_send(env.sock, env.gen, node.wraps),
                          env.msg)
       IN  /\ public_key' = r.pk
           /\ private_key' = r.prk
           /\ IF r.raised
              THEN /\ state' = r.st
                   /\ msg_sock' = r.sock
                   /\ cur' = Cur(node, NoAttrs, NoMessage)
                   /\ wire' = wire
                   /\ Fail
                   /\ last' = "generate raised"
              ELSE IF ~sent
              THEN /\ state' = r.st
                   /\ msg_sock' = env.sock
                   /\ cur' = Cur(node, env.gen, env.msg)
                   /\ wire' = wire
                   /\ Fail
                   /\ last' = "send raised"
              ELSE /\ state' = p.st
                   /\ msg_sock' = p.sock
                   /\ cur' = Cur(node, env.gen, env.msg)
                   /\ wire' = Transmit(env.sock, r.st.version, env.msg)
                   /\ IF p.raised THEN Fail ELSE Advance(this.child)
                   /\ last' = IF p.raised THEN "post_send raised"
                              ELSE "Generator"
    /\ before' = AllHooks(msg_sock, public_key, private_key)
    /\ UNCHANGED <<steps, log, driver>>

\* nothing is received before the timeout
Timeout ==
    /\ Fail
    /\ last' = "timeout"
    /\ UNCHANGED <<state, msg_sock>>

\* the message received is not one the conversation goes on with
Unexpected ==
    /\ runner' = [runner EXCEPT !.inbox = Tail(@)]
    /\ pc' = "failed"
    /\ last' = "Expectation raised"
    /\ UNCHANGED <<state, msg_sock>>

\* node processes the message received and the walk goes on with its child
Receive(node) ==
    LET r == Expectation_process(runner.tree[node], state, msg_sock,
                                 Head(runner.inbox))
    IN  IF r.raised THEN Unexpected
        ELSE /\ runner' = [runner EXCEPT !.node = runner.tree[node].child,
                                         !.inbox = Tail(@)]
             /\ pc' = IF runner.tree[node].child = 0 THEN "done"
                      ELSE "ready"
             /\ state' = r.st
             /\ msg_sock' = r.sock
             /\ last' = IF node = runner.node THEN "Expectation"
                        ELSE "alternate"

\* the node that takes the message: the node itself, else its
\* next_sibling, else none (0)
Matching(msg) ==
    IF is_match(this, msg) THEN runner.node
    ELSE IF this.next_sibling # 0
            /\ is_match(runner.tree[this.next_sibling], msg)
    THEN this.next_sibling
    ELSE 0

\* a Runner that goes on with the child of a node no message matched
RunExpectation_skip ==
    /\ Running_
    /\ this.kind = "Expectation"
    /\ IF runner.inbox = <<>> THEN Timeout
       ELSE LET node == Matching(Head(runner.inbox))
            IN  IF node = 0
                THEN /\ runner' = [runner EXCEPT !.node = this.child,
                                                 !.inbox = Tail(@)]
                     /\ pc' = IF this.child = 0 THEN "done" ELSE "ready"
                     /\ last' = "Expectation raised"
                     /\ UNCHANGED <<state, msg_sock>>
                ELSE Receive(node)
    /\ UNCHANGED <<public_key, private_key, cur, wire, before, steps, log,
                   driver>>

\* a Runner that hands the message to the alternate whenever there is one
RunExpectation_alternate_first ==
    /\ Running_
    /\ this.kind = "Expectation"
    /\ IF runner.inbox = <<>> THEN Timeout
       ELSE IF this.next_sibling # 0 THEN Receive(this.next_sibling)
       ELSE IF is_match(this, Head(runner.inbox)) THEN Receive(runner.node)
       ELSE Unexpected
    /\ UNCHANGED <<public_key, private_key, cur, wire, before, steps, log,
                   driver>>

\* a Runner that leaves the message of a self-repeating node in place
RunExpectation_peek ==
    /\ Running_
    /\ this.kind = "Expectation"
    /\ IF runner.inbox = <<>> THEN Timeout
       ELSE LET node == Matching(Head(runner.inbox))
            IN  IF node = 0 THEN Unexpected
                ELSE IF runner.tree[node].child = node
                THEN /\ last' = "Expectation"
                     /\ UNCHANGED <<runner, pc, state, msg_sock>>
                ELSE Receive(node)
    /\ UNCHANGED <<public_key, private_key, cur, wire, before, steps, log,
                   driver>>

\* one turn of Runner.run at an Expectation: the next message of the peer
\* is received (nothing comes: the timeout is a failure), the node is
\* tried on it and, if it does not match, its next_sibling; the node that
\* matched processes the message and the walk goes on with its child
RunExpectation ==
    /\ Running_
    /\ this.kind = "Expectation"
    /\ IF runner.inbox = <<>> THEN Timeout
       ELSE LET node == Matching(Head(runner.inbox))
            IN  IF node = 0 THEN Unexpected ELSE Receive(node)
    /\ UNCHANGED <<public_key, private_key, cur, wire, before, steps, log,
                   driver>>

\* NewSessionTicket messages one peer sends at most
MaxTickets == 2

RECURSIVE Times(_, _)
Times(x, n) == IF n = 0 THEN <<>> ELSE <<x>> \o Times(x, n - 1)

SeqOf(types) == [k \in 1..Len(types) |-> PeerMessage(types[k])]

\* the answer to the close_notify: an Alert, or the connection is closed
Endings ==
    {<<PeerAlert(AlertLevel_warning, AlertDescription_close_notify)>>,
     <<PeerMessage("Close")>>}

\* the peers that follow the message sequence of TLS 1.2, with a
\* ServerKeyExchange when the key exchange is (EC)DHE
ConformantTLS12(dhe) ==
    {<<PeerServerHello(TLS12,
                       IF dhe THEN TLS_DHE_RSA_WITH_AES_128_CBC_SHA
                       ELSE TLS_RSA_WITH_AES_128_CBC_SHA, FALSE, FALSE),
       PeerMessage("Certificate")>>
       \o (IF dhe THEN <<PeerMessage("ServerKeyExchange")>> ELSE <<>>)
       \o SeqOf(<<"ServerHelloDone", "ChangeCipherSpec", "Finished",
                  "ApplicationData">>) \o ending :
     ending \in Endings}

\* the peers that follow the message sequence of TLS 1.3, with some
\* NewSessionTicket messages before the application data
ConformantTLS13 ==
    {<<PeerServerHello(TLS13, TLS_AES_128_GCM_SHA256, FALSE, FALSE)>>
       \o SeqOf(<<"ChangeCipherSpec", "EncryptedExtensions", "Certificate",
                  "CertificateVerify", "Finished">>)
       \o Times(PeerMessage("NewSessionTicket"), n)
       \o <<PeerMessage("ApplicationData")>> \o ending :
     n \in 0..MaxTickets, ending \in Endings}

\* the peers that follow a full handshake with extended master secret
\* and, on a second connection, its resumption
ConformantResume ==
    {<<PeerServerHello(TLS12, TLS_RSA_WITH_AES_128_CBC_SHA, TRUE, FALSE)>>
       \o SeqOf(<<"Certificate", "ServerHelloDone", "ChangeCipherSpec",
                  "Finished">>) \o first
       \o (IF first[1].type = "Alert" THEN <<PeerMessage("Close")>>
           ELSE <<>>)
       \o <<PeerServerHello(TLS12, TLS_RSA_WITH_AES_128_CBC_SHA, TRUE,
                            TRUE)>>
       \o SeqOf(<<"ChangeCipherSpec", "Finished", "ApplicationData">>)
       \o second :
     first \in Endings, second \in Endings}

\* a peer that stops early, or that sends one message in place of another
Deviating(peers) ==
    UNION {{SubSeq(p, 1, n) : n \in 0..Len(p) - 1} : p \in peers}
    \cup UNION {{[p EXCEPT ![k] = m] :
            k \in 1..Len(p),
            m \in {PeerAlert(AlertLevel_fatal,
                             AlertDescription_handshake_failure),
                   PeerMessage("Close"),
                   PeerMessage("NewSessionTicket"),
                   PeerMessage("ApplicationData")}} : p \in peers}

Conversations ==
    ({legacy_renegotiation_tree}
        \X (ConformantTLS12(FALSE) \cup Deviating(ConformantTLS12(FALSE))))
    \cup UNION {{ems_sanity_tree(dhe)}
                  \X (ConformantTLS12(dhe)
                         \cup Deviating(ConformantTLS12(dhe))) :
                dhe \in BOOLEAN}
    \cup ({tls13_symetric_ciphers_tree}
        \X (ConformantTLS13 \cup Deviating(ConformantTLS13)))
    \cup ({ems_session_resume_tree}
        \X (ConformantResume \cup Deviating(ConformantResume)))

InitTree ==
    /\ state = NewConnectionState
    /\ msg_sock = NoSocket
    /\ public_key = <<>>
    /\ private_key = <<>>
    /\ pc = "ready"
    /\ cur = NoCur
    /\ wire = <<>>
    /\ before = AllHooks(NoSocket, <<>>, <<>>)
    /\ last = "init"
    /\ steps = 0
    /\ log = NoLog
    /\ driver = NoDriver
    /\ \E c \in Conversations : runner = Runner(c[1], c[2])

NextTree ==
    \/ RunCommand
    \/ \E sends \in BOOLEAN : RunGenerator(sends)
    \/ RunExpectation

SpecTree == InitTree /\ [][NextTree]_vars

\* the Runner is a loop that runs on its own: a turn that can be made is
\* made
SpecTreeFair == SpecTree /\ WF_vars(NextTree)

\* the Runner stands at an Expectation and the peer sent something
AtExpectation ==
    /\ Running_
    /\ this.kind = "Expectation"
    /\ runner.inbox # <<>>

OwnMatch == is_match(this, Head(runner.inbox))

AlternateMatch ==
    /\ this.next_sibling # 0
    /\ is_match(runner.tree[this.next_sibling], Head(runner.inbox))

\* C25: at an Expectation that has an alternate, the alternate is
\* taken exactly when the node itself does not match the message and the
\* alternate does; the walk then goes on with the child of the alternate,
\* with the node's own child when the node matched, and the conversation
\* fails when neither matches.
C25_Fallback ==
    [][(AtExpectation /\ this.next_sibling # 0) =>
          /\ (last' = "alternate") <=> (~OwnMatch /\ AlternateMatch)
          /\ OwnMatch =>
                /\ last' = "Expectation"
                /\ runner'.node = this.child
          /\ (~OwnMatch /\ AlternateMatch) =>
                runner'.node = runner.tree[this.next_sibling].child
          /\ (~OwnMatch /\ ~AlternateMatch) => pc' = "failed"]_vars

\* an alternate matched and the walk stands at the alternate's child, which
\* is not the child of the node that was tried first
C25_Witness ==
    /\ last = "alternate"
    /\ pc = "ready"
    /\ \E n \in 1..Len(runner.tree) :
          /\ runner.tree[n].next_sibling # 0
          /\ runner.tree[runner.tree[n].next_sibling].child = runner.node
          /\ runner.tree[n].child # runner.node

\* no message came, or one that neither the node nor its alternate matches
NoMatch ==
    /\ Running_
    /\ this.kind = "Expectation"
    /\ runner.inbox # <<>> => (~OwnMatch /\ ~AlternateMatch)

\* C26: a conversation that failed or is done takes no further step,
\* and the step at which no node matches ends the conversation as failed:
\* the Runner stays at the failing node, nothing is sent and the connection
\* state is left as it was.
C26_FailureEndsConversation ==
    [][/\ pc = "ready"
       /\ NoMatch =>
             /\ pc' = "failed"
             /\ runner'.node = runner.node
             /\ wire' = wire
             /\ state' = state
       /\ pc' = "failed" => runner'.node = runner.node]_vars

\* a conversation failed at an Expectation that had nodes after it
C26_Witness ==
    /\ pc = "failed"
    /\ last = "Expectation raised"
    /\ runner.node # 0
    /\ runner.tree[runner.node].child # 0

Terminated == pc \in {"done", "failed"}

\* conversations whose tree has the self-repeating ExpectNewSessionTicket
Repeating == runner.tree = tls13_symetric_ciphers_tree

\* the NewSessionTicket messages among msgs
Tickets(msgs) ==
    Cardinality({k \in 1..Len(msgs) : msgs[k].type = "NewSessionTicket"})

\* C27: a conversation with the self-repeating ExpectNewSessionTicket
\* ends, done or failed, when the peer sends finitely many messages; each
\* turn at the repeat node takes exactly one message off what the peer
\* sent, and with a peer that keeps to the protocol, zero tickets
\* included, the conversation fails only if a transmission fails.
C27_RepeatTerminates ==
    /\ <>Terminated
    /\ [](( /\ Repeating
            /\ pc = "failed"
            /\ runner.peer \in ConformantTLS13) => last = "send raised")
    /\ [][( /\ Repeating
            /\ AtExpectation
            /\ this.child = runner.node) =>
              runner'.inbox = Tail(runner.inbox)]_vars

\* the conversation is done after the peer sent as many tickets as it may
C27_Witness ==
    /\ Repeating
    /\ pc = "done"
    /\ Tickets(runner.peer) = MaxTickets
    /\ runner.inbox = <<>>

\* the nodes that have n as child or as alternate, n itself left out
Parents(tree, n) ==
    {m \in 1..Len(tree) :
        m # n /\ (tree[m].child = n \/ tree[m].next_sibling = n)}

\* the nodes a walk can go to from the nodes of frontier
RECURSIVE Descendants(_, _, _)
Descendants(tree, frontier, seen) ==
    LET next == {tree[m].child : m \in frontier}
                  \cup {tree[m].next_sibling : m \in frontier}
        fresh == (next \ {0}) \ seen
    IN  IF fresh = {} THEN seen
        ELSE Descendants(tree, fresh, seen \cup fresh)

\* the nodes below n, n itself where it is its own child only
Below(tree, n) ==
    Descendants(tree, {tree[n].child, tree[n].next_sibling} \ {0, n}, 
                ({tree[n].child, tree[n].next_sibling} \ {0, n}))

Sanity ==
    runner.tree \in {legacy_renegotiation_tree, ems_sanity_tree(FALSE),
                     ems_sanity_tree(TRUE)}

ConformantPeer ==
    runner.peer \in ConformantTLS12(FALSE) \cup ConformantTLS12(TRUE)

\* C29: against a peer that sends ServerHello, Certificate,
\* ServerKeyExchange if the key exchange has one, ServerHelloDone,
\* ChangeCipherSpec, Finished and one ApplicationData, and that answers the
\* close_notify with an Alert or by closing, the sanity conversation ends,
\* and it fails only if a transmission fails.
C29_SanityRunsToDone ==
    /\ []((Sanity /\ ConformantPeer /\ pc = "failed") =>
             last = "send raised")
    /\ (Sanity /\ ConformantPeer) ~> Terminated

\* the sanity conversation is done by way of ExpectClose, the peer having
\* closed without an Alert
C29_Witness ==
    /\ Sanity
    /\ ConformantPeer
    /\ pc = "done"
    /\ last = "alternate"
    /\ runner.peer[Len(runner.peer)].type = "Close"

---------------------------------------------------------------------------
(* test-tls13-symetric-ciphers.py: the conversations that fuzz the tag of  *)
(* one encrypted record (C30).                                             *)

TLS_AES_256_GCM_SHA384 == 4866
TLS_CHACHA20_POLY1305_SHA256 == 4867

\* the ciphers, the values and the positions in the order of the loops
Ciphers ==
    <<TLS_AES_128_GCM_SHA256, TLS_AES_256_GCM_SHA384,
      TLS_CHACHA20_POLY1305_SHA256>>

Vals == <<1, 2, 4, 8, 16, 32, 64, 128>>

\* range(-1, -17, -1)
Positions == [i \in 1..16 |-> 0 - i]

\* CipherSuite.ietfNames
ietfNames(cipher) ==
    CASE cipher = TLS_AES_128_GCM_SHA256 -> "TLS_AES_128_GCM_SHA256"
      [] cipher = TLS_AES_256_GCM_SHA384 -> "TLS_AES_256_GCM_SHA384"
      [] cipher = TLS_CHACHA20_POLY1305_SHA256 ->
            "TLS_CHACHA20_POLY1305_SHA256"

\* fuzz_encrypted_message(msg, xors={pos:val})
fuzz_encrypted_message(node, val, pos) ==
    [node EXCEPT !.what.wraps =
        Append(@, Wrapper("fuzz_encrypted_message", None,
                          Dict(<<<<pos, val>>>>), 0))]

\* the nodes up to the fuzzed Generator; finished says that the Finished
\* message is the one fuzzed, else the application data is
fuzz_nodes(cipher, finished, val, pos) ==
    <<[GeneratorNode("ClientHello") EXCEPT !.what.cipher = cipher],
      ExpectNode("ServerHello"),
      ExpectNode("ChangeCipherSpec"),
      ExpectNode("EncryptedExtensions"),
      ExpectNode("Certificate"),
      ExpectNode("CertificateVerify"),
      ExpectNode("Finished")>>
    \o (IF finished
        THEN <<fuzz_encrypted_message(GeneratorNode("Finished"), val, pos)>>
        ELSE <<GeneratorNode("Finished"),
               fuzz_encrypted_message(PayloadNode("ApplicationData"),
                                      val, pos)>>)
    \o <<ExpectNode("NewSessionTicket")>>

\* a fuzzing conversation that goes on as the sanity conversation does
fuzz_conversation_data(cipher, finished, val, pos) ==
    LET head == Chain(<<ConnectNode>>, 1,
                      fuzz_nodes(cipher, finished, val, pos))
        cycle == Len(head)
        looped == add_child(head, cycle, cycle)
        sibling == set_next_sibling(
                       Append(looped, ExpectNode("ApplicationData")),
                       cycle, cycle + 1)
    IN  Chain(sibling, cycle + 1,
              <<PayloadNode("Alert"), ExpectNode("Alert")>>)

\* one conversation of the loops: after the fuzzed record the optional
\* NewSessionTicket messages, then ExpectAlert(fatal, bad_record_mac) as
\* the sibling of cycle, and ExpectClose below it
fuzz_conversation(cipher, finished, val, pos) ==
    LET head == Chain(<<ConnectNode>>, 1,
                      fuzz_nodes(cipher, finished, val, pos))
        cycle == Len(head)
        looped == add_child(head, cycle, cycle)
        sibling == set_next_sibling(
                       Append(looped,
                              ExpectAlertNode(AlertLevel_fatal,
                                  AlertDescription_bad_record_mac)),
                       cycle, cycle + 1)
    IN  Chain(sibling, cycle + 1, <<ExpectNode("Close")>>)

\* the key a conversation is registered under
fuzz_name(cipher, finished, val, pos) ==
    "check connection with " \o ietfNames(cipher) \o " - fuzz tag on "
      \o (IF finished THEN "finished message" ELSE "application data")
      \o " with " \o ToString(val) \o " on pos " \o ToString(pos)

Fuzz(cipher, finished, val, pos) ==
    [cipher |-> cipher, finished |-> finished, val |-> val, pos |-> pos]

\* the assignments conversations[name] = conversation of the loops, in
\* their order: per cipher, val and pos the application data, then the
\* Finished message
Registrations ==
    [k \in 1..(Len(Ciphers) * Len(Vals) * Len(Positions) * 2) |->
        LET per_cipher == Len(Vals) * Len(Positions) * 2
            per_val == Len(Positions) * 2
        IN  Fuzz(Ciphers[((k - 1) \div per_cipher) + 1],
                 (k - 1) % 2 = 1,
                 Vals[(((k - 1) % per_cipher) \div per_val) + 1],
                 Positions[(((k - 1) % per_val) \div 2) + 1])]

NameOf(f) == fuzz_name(f.cipher, f.finished, f.val, f.pos)

\* the dict after the loops: a later assignment to a key replaces the
\* earlier one
symetric_ciphers_conversations ==
    LET names == {NameOf(Registrations[k]) : k \in DOMAIN Registrations}
    IN  [name \in names |->
            LET k == CHOOSE k \in DOMAIN Registrations :
                        /\ NameOf(Registrations[k]) = name
                        /\ \A j \in DOMAIN Registrations :
                              NameOf(Registrations[j]) = name => j <= k
                f == Registrations[k]
            IN  [fuzz |-> f,
                 tree |-> fuzz_conversation(f.cipher, f.finished, f.val,
                                            f.pos)]]

\* what a TLS 1.3 peer sends up to its Finished
Handshake13(cipher) ==
    <<PeerServerHello(TLS13, cipher, FALSE, FALSE)>>
      \o SeqOf(<<"ChangeCipherSpec", "EncryptedExtensions", "Certificate",
                 "CertificateVerify", "Finished">>)

BadRecordMac ==
    <<PeerAlert(AlertLevel_fatal, AlertDescription_bad_record_mac),
      PeerMessage("Close")>>

\* what a peer may do about the fuzzed record
Answers ==
    {BadRecordMac,
     <<PeerAlert(AlertLevel_fatal, AlertDescription_bad_record_mac)>>,
     <<PeerAlert(AlertLevel_fatal, AlertDescription_handshake_failure),
       PeerMessage("Close")>>,
     <<PeerAlert(AlertLevel_warning, AlertDescription_bad_record_mac),
       PeerMessage("Close")>>,
     <<PeerMessage("Close")>>,
     <<PeerMessage("ApplicationData"),
       PeerAlert(AlertLevel_warning, AlertDescription_close_notify)>>,
     <<PeerMessage("ApplicationData"),
       PeerAlert(AlertLevel_fatal, AlertDescription_bad_record_mac),
       PeerMessage("Close")>>}

InitFuzz ==
    /\ state = NewConnectionState
    /\ msg_sock = NoSocket
    /\ public_key = <<>>
    /\ private_key = <<>>
    /\ pc = "ready"
    /\ cur = NoCur
    /\ wire = <<>>
    /\ before = AllHooks(NoSocket, <<>>, <<>>)
    /\ last = "init"
    /\ steps = 0
    /\ log = NoLog
    /\ driver = NoDriver
    /\ \E name \in DOMAIN symetric_ciphers_conversations :
       \E n \in 0..MaxTickets :
       \E answer \in Answers :
          LET c == symetric_ciphers_conversations[name]
              peer == Handshake13(c.fuzz.cipher)
                        \o Times(PeerMessage("NewSessionTicket"), n)
                        \o answer
          IN  runner = [tree |-> c.tree, node |-> 1, inbox |-> peer,
                        peer |-> peer, name |-> name, fuzz |-> c.fuzz,
                        answer |-> answer]

SpecFuzz == InitFuzz /\ [][NextTree]_vars

\* the number of keys of the dict and of assignments the loops make
Registered ==
    [keys |-> Cardinality(DOMAIN symetric_ciphers_conversations),
     assignments |-> Len(Registrations)]

\* the step sends the record of a fuzzed Generator
FuzzedStep ==
    /\ Running_
    /\ this.kind = "Generator"
    /\ this.what.wraps # <<>>
    /\ last' = "Generator"

\* C30: the loops register one conversation per cipher, val, pos and
\* fuzzed message, 3 * 8 * 16 * 2 in all, under as many names; the fuzzed
\* Generator sends a record that differs from the one it would have sent
\* in the one byte at pos, among the last 16, by val; and a conversation is
\* done only if the peer answered, after any NewSessionTicket messages,
\* with the fatal bad_record_mac Alert and then closed, never if it sent
\* application data.
C30_FuzzedTagRejected ==
    /\ [](/\ Registered.keys = Registered.assignments
          /\ Registered.keys = 3 * 8 * 16 * 2
          /\ runner.tree = symetric_ciphers_conversations[runner.name].tree
          /\ pc = "done" =>
                /\ runner.answer = BadRecordMac
                /\ \A k \in 1..Len(runner.peer) :
                      runner.peer[k].type # "ApplicationData")
    /\ [][FuzzedStep =>
            LET sent == Transmit([msg_sock EXCEPT !.recordSocket.send = <<>>],
                                 state.version, cur'.msg)
                at == Len(sent) + runner.fuzz.pos + 1
            IN  /\ msg_sock.writeState # <<>>
                /\ at > Len(sent) - TagLength
                /\ wire' = [sent EXCEPT ![at] = Xor(@, runner.fuzz.val)]
                /\ wire' # sent]_vars

\* a conversation that fuzzes the Finished message at the first byte of the
\* tag is done, the peer having sent tickets before the Alert
C30_Witness ==
    /\ pc = "done"
    /\ runner.fuzz.finished
    /\ runner.fuzz.pos = 0 - TagLength
    /\ Tickets(runner.peer) = MaxTickets
    /\ runner.answer = BadRecordMac

---------------------------------------------------------------------------
(* Two handshakes on one connection with ResetHandshakeHashes between      *)
(* them, as the renegotiation conversations of                             *)
(* test-legacy-renegotiation.py run them (C31).                            *)

\* CopyVariables({'master_secret': [], 'client_verify_data': []})
CopyKeys ==
    TreeNode("Command",
             Cmd("CopyVariables", <<"master_secret", "client_verify_data">>,
                 <<>>))

\* the nodes of one full handshake; info says that the ClientHello has
\* extensions {renegotiation_info: None}
handshake_nodes(dhe, info) ==
    <<[GeneratorNode("ClientHello") EXCEPT !.what.opt = info],
      ExpectNode("ServerHello"),
      ExpectNode("Certificate")>>
    \o (IF dhe THEN <<ExpectNode("ServerKeyExchange")>> ELSE <<>>)
    \o <<ExpectNode("ServerHelloDone"),
         GeneratorNode("ClientKeyExchange"),
         GeneratorNode("ChangeCipherSpec"),
         GeneratorNode("Finished"),
         ExpectNode("ChangeCipherSpec"),
         ExpectNode("Finished"),
         CopyKeys>>

\* the handshake, ResetHandshakeHashes (and ResetRenegotiationInfo if
\* reset_info), the handshake again
renegotiation_tree(dhe, info, reset_info) ==
    Chain(<<ConnectNode>>, 1,
          handshake_nodes(dhe, info)
            \o <<CommandNode("ResetHandshakeHashes")>>
            \o (IF reset_info THEN <<CommandNode("ResetRenegotiationInfo")>>
                ELSE <<>>)
            \o handshake_nodes(dhe, info))

\* what the peer sends in one full handshake
ServerFlight(dhe, ems) ==
    <<PeerServerHello(TLS12,
                      IF dhe THEN TLS_DHE_RSA_WITH_AES_128_CBC_SHA
                      ELSE TLS_RSA_WITH_AES_128_CBC_SHA, ems, FALSE),
      PeerMessage("Certificate")>>
    \o (IF dhe THEN <<PeerMessage("ServerKeyExchange")>> ELSE <<>>)
    \o SeqOf(<<"ServerHelloDone", "ChangeCipherSpec", "Finished">>)

InitIdem ==
    /\ state = NewConnectionState
    /\ msg_sock = NoSocket
    /\ public_key = <<>>
    /\ private_key = <<>>
    /\ pc = "ready"
    /\ cur = NoCur
    /\ wire = <<>>
    /\ before = AllHooks(NoSocket, <<>>, <<>>)
    /\ last = "init"
    /\ steps = 0
    /\ log = NoLog
    /\ driver = NoDriver
    /\ \E dhe \in BOOLEAN, ems \in BOOLEAN, info \in BOOLEAN,
          reset_info \in BOOLEAN :
          LET peer == ServerFlight(dhe, ems) \o ServerFlight(dhe, ems)
          IN  runner = [tree |-> renegotiation_tree(dhe, info, reset_info),
                        node |-> 1, inbox |-> peer, peer |-> peer,
                        ems |-> ems, info |-> info,
                        reset_info |-> reset_info]

SpecIdem == InitIdem /\ [][NextTree]_vars

\* both handshakes were run and their keys copied
RanTwice ==
    /\ pc = "done"
    /\ Len(log["master_secret"]) = 2
    /\ Len(log["client_verify_data"]) = 2

\* the second handshake gave the keys of the first
SameKeys ==
    /\ log["master_secret"][1] = log["master_secret"][2]
    /\ log["client_verify_data"][1] = log["client_verify_data"][2]

\* C31 as stated: a full handshake, ResetHandshakeHashes and the same
\* handshake again, with the same randoms and premaster secret, give the
\* same master_secret and the same client verify_data.
C31_SameKeysAfterResetHandshakeHashes ==
    pc = "done" => (RanTwice /\ SameKeys)

\* C31: the second handshake gives the same master_secret and the
\* same client verify_data as the first, with and without extended master
\* secret, when its ClientHello is the message the first ClientHello was:
\* it has no renegotiation_info filled in from the state, or
\* ResetRenegotiationInfo was run with ResetHandshakeHashes.  Without
\* extended master secret the master_secret is the same in any case.
C31_KeyScheduleIdempotent ==
    pc = "done" =>
       /\ RanTwice
       /\ (~runner.info \/ runner.reset_info) => SameKeys
       /\ ~runner.ems =>
             log["master_secret"][1] = log["master_secret"][2]

\* two handshakes with extended master secret, renegotiation_info and both
\* resets were run, and the keys are the same
C31_Witness ==
    /\ RanTwice
    /\ runner.ems
    /\ runner.info
    /\ runner.reset_info
    /\ SameKeys
    /\ log["master_secret"][1] # <<>>

---------------------------------------------------------------------------
(* substitute_and_xor on its own (C32): a byte string, a substitutions     *)
(* mapping and a xors mapping are drawn; the function is applied to them,  *)
(* and then the xors alone once and once more.                             *)

\* length of the longest byte string drawn
MaxData == 3

ByteStrings ==
    UNION {[1..n -> {0, 255}] : n \in 1..MaxData}

\* the offsets that are inside a byte string of length n
Offsets(n) == (0 - n)..(n - 1)

\* the dicts with at most two keys, all inside the data: None, {}, one
\* key, and two different keys in either order of insertion
Mappings(n, v1, v2) ==
    {None, EmptyDict}
    \cup {Dict(<<<<p, v1>>>>) : p \in Offsets(n)}
    \cup UNION {{Dict(<<<<p, v1>>, <<q, v2>>>>) : q \in Offsets(n) \ {p}} :
                  p \in Offsets(n)}

Inputs(data, substitutions, xors) ==
    [data |-> data, substitutions |-> substitutions, xors |-> xors]

InitSubst ==
    /\ state = NewConnectionState
    /\ msg_sock = NoSocket
    /\ public_key = <<>>
    /\ private_key = <<>>
    /\ pc = "ready"
    /\ wire = <<>>
    /\ before = AllHooks(NoSocket, <<>>, <<>>)
    /\ last = "init"
    /\ steps = 0
    /\ log = NoLog
    /\ driver = NoDriver
    /\ runner = NoRunner
    /\ \E data \in ByteStrings :
       \E substitutions \in Mappings(Len(data), 7, 9) :
       \E xors \in Mappings(Len(data), 1, 128) :
          cur = Inputs(data, substitutions, xors)

\* substitute_and_xor(data, substitutions, xors)
Substitute ==
    /\ pc = "ready"
    /\ last = "init"
    /\ wire' = substitute_and_xor(cur.data, cur.substitutions, cur.xors)
    /\ last' = "substitute_and_xor"
    /\ UNCHANGED <<state, msg_sock, public_key, private_key, pc, cur,
                   before, steps, log, driver, runner>>

\* substitute_and_xor(data, None, xors) on the data as drawn
XorOnce ==
    /\ pc = "ready"
    /\ last = "substitute_and_xor"
    /\ wire' = substitute_and_xor(cur.data, None, cur.xors)
    /\ last' = "xor"
    /\ UNCHANGED <<state, msg_sock, public_key, private_key, pc, cur,
                   before, steps, log, driver, runner>>

\* substitute_and_xor(data, None, xors) on what XorOnce returned
XorTwice ==
    /\ pc = "ready"
    /\ last = "xor"
    /\ wire' = substitute_and_xor(wire, None, cur.xors)
    /\ last' = "xor twice"
    /\ pc' = "done"
    /\ UNCHANGED <<state, msg_sock, public_key, private_key, cur, before,
                   steps, log, driver, runner>>

NextSubst == Substitute \/ XorOnce \/ XorTwice

SpecSubst == InitSubst /\ [][NextSubst]_vars

\* the keys of mapping m, in the order of the dict
Keys(m) == IF m.none THEN <<>> ELSE [k \in 1..Len(m.map) |-> m.map[k][1]]

\* the byte of a string of length n that offset pos is: counted from the
\* end when negative
ByteAt(n, pos) == IF pos >= 0 THEN pos + 1 ELSE n + 1 + pos

\* the positions in the dict of m whose key is byte i
Addressing(m, n, i) ==
    {k \in 1..Len(Keys(m)) : ByteAt(n, Keys(m)[k]) = i}

\* C32 as stated: the length is kept, -1 is the last byte, a byte
\* whose offset is a key of neither mapping is unchanged, a byte whose
\* offset is a key of both ends up as the substitution XOR the mask, and
\* the xors applied twice give the data back.
C32_SubstitutionThenXor ==
    LET n == Len(cur.data)
        subs == cur.substitutions
        xors == cur.xors
    IN  /\ last = "substitute_and_xor" =>
              /\ Len(wire) = n
              /\ \A i \in 1..n :
                    (Addressing(subs, n, i) = {}
                       /\ Addressing(xors, n, i) = {}) =>
                          wire[i] = cur.data[i]
              /\ \A k \in 1..Len(Keys(subs)) :
                 \A j \in 1..Len(Keys(xors)) :
                    Keys(subs)[k] = Keys(xors)[j] =>
                       wire[ByteAt(n, Keys(subs)[k])] =
                          Xor(subs.map[k][2], xors.map[j][2])
        /\ last = "xor twice" => wire = cur.data

\* C32: the length is kept, -1 is the last byte, a byte that no key
\* of either mapping addresses is unchanged, a byte that one key of each
\* mapping addresses and no other ends up as the substitution XOR the
\* mask, and the xors applied twice give the data back.
C32_SubstitutionThenXorPerByte ==
    LET n == Len(cur.data)
        subs == cur.substitutions
        xors == cur.xors
    IN  /\ last = "substitute_and_xor" =>
              /\ Len(wire) = n
              /\ \A i \in 1..n :
                    (Addressing(subs, n, i) = {}
                       /\ Addressing(xors, n, i) = {}) =>
                          wire[i] = cur.data[i]
              /\ \A i \in 1..n :
                 \A k \in Addressing(subs, n, i) :
                 \A j \in Addressing(xors, n, i) :
                    (Addressing(subs, n, i) = {k}
                       /\ Addressing(xors, n, i) = {j}) =>
                          wire[i] = Xor(subs.map[k][2], xors.map[j][2])
        /\ last = "xor twice" => wire = cur.data

\* the last byte was substituted by the key -1 and then masked
C32_Witness ==
    /\ last = "substitute_and_xor"
    /\ Len(cur.data) = MaxData
    /\ Keys(cur.substitutions) = <<-1>>
    /\ Keys(cur.xors) = <<-1>>
    /\ wire[MaxData] = Xor(7, 1)
    /\ wire[MaxData] # cur.data[MaxData]

---------------------------------------------------------------------------
(* A conversation run again (C33): the drivers build each conversation     *)
(* once and hand the same tree of objects to a new Runner for every run,   *)
(* for the trailing sanity run and for every run of --repeat.  A Generator *)
(* is an object of that tree: what generate and post_send assign to self   *)
(* is there in the next run.                                               *)

\* TLS 1.1, (3, 2)
TLS11 == 32

\* the attributes of the Generator after generate(state): a parameter left
\* None is assigned what the state has
generate_self(node, st) ==
    CASE node.gen = "ClientHello" ->
            [node EXCEPT !.version = IF @ = 0 THEN st.client_version ELSE @]
      [] node.gen = "ClientKeyExchange" ->
            [node EXCEPT !.version = IF @ = 0 THEN st.version ELSE @,
                         !.cipher = IF @ = 0 THEN st.cipher ELSE @]
      [] node.gen \in {"CertificateVerify", "Finished"} ->
            [node EXCEPT !.version = IF @ = 0 THEN st.version ELSE @]
      [] OTHER -> node

\* the attributes of the Generator after post_send(state)
post_send_self(node, st) ==
    IF node.gen = "ChangeCipherSpec" /\ st.version < TLS13 /\ ~node.opt
          /\ node.extended_master_secret = "None"
    THEN [node EXCEPT !.extended_master_secret =
                         IF st.extended_master_secret THEN "True"
                         ELSE "False"]
    ELSE node

\* one turn of Runner.run at a Generator of a tree that is run again: the
\* Generator is the object as the runs before left it
RunGeneratorObject ==
    /\ Running_
    /\ this.kind = "Generator"
    /\ LET node == this.what
           r == generate(node, state, public_key, private_key, msg_sock, 1)
           self == generate_self(node, state)
           p == post_send(node, r.st, r.sock, r.msg)
           sent == post_send_self(self, r.st)
       IN  /\ public_key' = r.pk
           /\ private_key' = r.prk
           /\ cur' = Cur(node, NoAttrs, r.msg)
           /\ IF r.raised
              THEN /\ state' = r.st
                   /\ msg_sock' = r.sock
                   /\ wire' = wire
                   /\ runner' = [runner EXCEPT !.tree[runner.node].what = self]
                   /\ pc' = "failed"
                   /\ last' = "generate raised"
              ELSE /\ state' = p.st
                   /\ msg_sock' = p.sock
                   /\ wire' = Transmit(r.sock, r.st.version, r.msg)
                   /\ runner' = [runner EXCEPT
                                    !.tree[runner.node].what = sent,
                                    !.ran = @ \cup {runner.node},
                                    !.node = IF p.raised THEN @
                                             ELSE this.child]
                   /\ pc' = IF p.raised THEN "failed"
                            ELSE IF this.child = 0 THEN "done" ELSE "ready"
                   /\ last' = IF p.raised THEN "post_send raised"
                              ELSE "Generator"
    /\ before' = AllHooks(msg_sock, public_key, private_key)
    /\ UNCHANGED <<steps, log, driver>>

\* the next run of the loop over ordered_tests and range(repeats):
\* Runner(c_test) on the same conversation, with a new ConnectionState
RunAgain ==
    /\ pc \in {"done", "failed"}
    /\ runner.run < Len(runner.peers)
    /\ runner' = [runner EXCEPT !.run = @ + 1,
                                !.node = 1,
                                !.inbox = runner.peers[runner.run + 1],
                                !.peer = runner.peers[runner.run + 1],
                                !.ran = {}]
    /\ state' = NewConnectionState
    /\ msg_sock' = NoSocket
    /\ pc' = "ready"
    /\ last' = "Runner"
    /\ UNCHANGED <<public_key, private_key, cur, wire, before, steps, log,
                   driver>>

\* what a server sends through a conversation of TLS 1.2 or lower
ServerRun(version, cipher, ems) ==
    <<PeerServerHello(version, cipher, ems, FALSE),
      PeerMessage("Certificate")>>
    \o (IF cipher \in certSuites THEN <<>>
        ELSE <<PeerMessage("ServerKeyExchange")>>)
    \o SeqOf(<<"ServerHelloDone", "ChangeCipherSpec", "Finished",
               "ApplicationData">>)
    \o <<PeerAlert(AlertLevel_warning, AlertDescription_close_notify)>>

ServerRuns(dhe) ==
    {ServerRun(version, cipher, ems) :
        version \in {TLS11, TLS12},
        cipher \in IF dhe THEN dheCertSuites \cup ecdhAllSuites
                   ELSE certSuites,
        ems \in BOOLEAN}

InitRerun ==
    /\ state = NewConnectionState
    /\ msg_sock = NoSocket
    /\ public_key = <<>>
    /\ private_key = <<>>
    /\ pc = "ready"
    /\ cur = NoCur
    /\ wire = <<>>
    /\ before = AllHooks(NoSocket, <<>>, <<>>)
    /\ last = "init"
    /\ steps = 0
    /\ log = NoLog
    /\ driver = NoDriver
    /\ \E dhe \in BOOLEAN :
       \E first \in ServerRuns(dhe), second \in ServerRuns(dhe) :
          runner = [tree |-> ems_sanity_tree(dhe), node |-> 1,
                    inbox |-> first, peer |-> first,
                    peers |-> <<first, second>>, run |-> 1, ran |-> {},
                    created |-> ems_sanity_tree(dhe)]

NextRerun == RunCommand \/ RunGeneratorObject \/ RunExpectation \/ RunAgain

SpecRerun == InitRerun /\ [][NextRerun]_vars

\* the Generators of the tree that have run in this run and were created
\* with gen's parameters left None
RanDefaulted(gen) ==
    {k \in runner.ran :
        /\ runner.created[k].what.gen = gen
        /\ runner.created[k].what.version = 0
        /\ runner.created[k].what.cipher = 0
        /\ runner.created[k].what.extended_master_secret = "None"}

\* C33: in every run of a conversation, the first and the later
\* ones on a new ConnectionState, a Generator created with its parameters
\* left None has taken the version, the cipher and extended_master_secret
\* from the state of this run.
C33_RerunResolvesFromNewState ==
    /\ \A k \in RanDefaulted("ClientKeyExchange") :
          /\ runner.tree[k].what.version = state.version
          /\ runner.tree[k].what.cipher = state.cipher
    /\ \A k \in RanDefaulted("Finished") :
          runner.tree[k].what.version = state.version
    /\ \A k \in RanDefaulted("ChangeCipherSpec") :
          runner.tree[k].what.extended_master_secret =
             (IF state.extended_master_secret THEN "True" ELSE "False")

---------------------------------------------------------------------------
(* The resumption flag (C34): a ServerHello that resumes a session or      *)
(* starts a full handshake, then ClientKeyExchange, ChangeCipherSpec and   *)
(* Finished in any order, on a connection that was just opened.            *)

ResumeExpectations ==
    {[bytes |-> <<2, 0, 0, 1, TLS12>>, version |-> TLS12,
      cipher |-> TLS_RSA_WITH_AES_128_CBC_SHA,
      extended_master_secret |-> FALSE, resuming |-> resuming,
      record_size_limit |-> 0] : resuming \in BOOLEAN}

ResumeGenerators ==
    {Node("ClientKeyExchange"), Node("ChangeCipherSpec"), Node("Finished")}

NextResume ==
    \/ \E e \in ResumeExpectations : Expect(e)
    \/ \E node \in ResumeGenerators : Generate(node, 1, MaxNodes)
    \/ Send
    \/ SendFail
    \/ PostSend

SpecResume == InitHs /\ [][NextResume]_vars

\* C34: in TLS 1.2 or lower, the post_send of a ChangeCipherSpecGenerator
\* while state.resuming leaves the keys of the state as they are, computes
\* no pending states and makes the pending write state the write state;
\* the post_send of a Finished clears resuming; and the post_send of a
\* ChangeCipherSpecGenerator when resuming is clear computes
\* key['master_secret'] again.
C34_ResumingLifecycle ==
    [][/\ (KeySwitchStep /\ state.resuming) =>
             /\ last' = "post_send"
             /\ state'.key = state.key
             /\ state'.resuming
             /\ msg_sock'.writeState = msg_sock.pendingWriteState
             /\ msg_sock'.pendingWriteState = <<>>
             /\ msg_sock'.pendingReadState = msg_sock.pendingReadState
       /\ FinishedPostSend => ~state'.resuming
       /\ (KeySwitchStep /\ ~state.resuming /\ last' = "post_send") =>
             /\ state'.key["master_secret"] =
                   calcMasterSecret(state.version, state.cipher,
                                    state.key["premaster_secret"],
                                    state.client_random, state.server_random)
             /\ msg_sock'.writeState =
                   calc_pending_states(msg_sock, state').pendingWriteState
      ]_vars

\* a ChangeCipherSpec went out while resuming, after a ClientKeyExchange
\* had set a premaster secret: no master secret was made of it, the state
\* is still resuming and the write state is the pending one of before
C34_Witness ==
    /\ last = "post_send"
    /\ cur.node.gen = "ChangeCipherSpec"
    /\ state.resuming
    /\ state.key["premaster_secret"] # <<>>
    /\ state.key["master_secret"] = <<>>
    /\ msg_sock.writeState = <<>>
    /\ msg_sock.pendingWriteState = <<>>

---------------------------------------------------------------------------
(* Secure renegotiation (C35): ClientHello with extensions                 *)
(* {renegotiation_info: None}, Finished with and without truncation and    *)
(* padding, ResetRenegotiationInfo with and without arguments and          *)
(* ResetHandshakeHashes in any order, on a connection that was just        *)
(* opened.                                                                 *)

RenegotiationCommands ==
    {Cmd("ResetRenegotiationInfo", <<>>, <<>>),
     Cmd("ResetRenegotiationInfo", <<1, 2>>, <<3>>),
     Cmd("ResetHandshakeHashes", <<>>, <<>>)}

\* FinishedGenerator(), (trunc_start=1), (trunc_end=-1),
\* (pad_byte=170, pad_left=1, pad_right=2), (protocol=(0, 2))
RenegotiationGenerators ==
    {[Node("ClientHello") EXCEPT !.opt = TRUE],
     Node("Finished"),
     [Node("Finished") EXCEPT !.payload = <<1, 0, 0, 0>>],
     [Node("Finished") EXCEPT !.payload = <<0, 0, 0, 0, -1>>],
     [Node("Finished") EXCEPT !.payload = <<0, 170, 1, 2>>],
     [Node("Finished") EXCEPT !.version = SSL2]}

NextRenegotiation ==
    \/ \E c \in RenegotiationCommands : Command(c)
    \/ \E node \in RenegotiationGenerators : Generate(node, 1, MaxNodes)
    \/ Send
    \/ SendFail
    \/ PostSend

SpecRenegotiation == InitHs /\ [][NextRenegotiation]_vars

\* the step is a generate that returned a message
Generated(gen) ==
    /\ pc = "ready"
    /\ pc' = "generated"
    /\ cur'.node.gen = gen

\* the step is the process of a ResetRenegotiationInfo
RenegotiationInfoReset ==
    /\ pc = "ready"
    /\ last' = "ResetRenegotiationInfo"
    /\ steps' = steps + 1

\* the renegotiation_info extension with the given payload
RenegotiationInfo(data) == <<255, 1, Len(data)>> \o data

\* C35: key['client_verify_data'] is the verify_data that the last
\* Finished generated carries, as it goes out after truncation and padding,
\* or what a ResetRenegotiationInfo run since has set (nothing when it was
\* made without arguments), and no other step changes it; a ClientHello with
\* renegotiation_info None carries exactly that value.
C35_RenegotiationInfoBinding ==
    [][/\ Generated("Finished") =>
             state'.key["client_verify_data"] = cur'.msg.body
       /\ RenegotiationInfoReset =>
             \E c \in RenegotiationCommands :
                /\ c.cmd = "ResetRenegotiationInfo"
                /\ state'.key["client_verify_data"] = c.payload
                /\ state'.key["server_verify_data"] = c.payload2
       /\ (~Generated("Finished") /\ ~RenegotiationInfoReset) =>
             state'.key["client_verify_data"] =
                state.key["client_verify_data"]
       /\ Generated("ClientHello") =>
             LET data == state.key["client_verify_data"]
             IN  /\ Len(cur'.msg.body) >= Len(data) + 3
                 /\ PySuffix(cur'.msg.body, Len(data) + 3) =
                       RenegotiationInfo(data)
      ]_vars

\* a ClientHello carries the padded verify_data of the Finished before it
C35_Witness ==
    /\ last = "generate"
    /\ cur.node.gen = "ClientHello"
    /\ Len(state.key["client_verify_data"]) = 6
    /\ state.key["client_verify_data"][1] = 170
    /\ state.key["client_verify_data"][5] = 170
    /\ PySuffix(cur.msg.body, 9) =
          RenegotiationInfo(state.key["client_verify_data"])

---------------------------------------------------------------------------
(* split_message, PopMessageFromList and FlushMessageList (C36, C37).  The *)
(* Generator that is split returns a message of a content type whose       *)
(* write() is data; fragment_list is the list the three share, empty as    *)
(* the script creates it.  The while loop of new_generate is taken one     *)
(* turn at a time: rest is its variable data.                              *)

\* the longest fragment_list the loop is followed to
MaxFragments == 4

Sizes == (0 - 1)..(MaxData + 1)

Splitting(contentType, data, size) ==
    [contentType |-> contentType, data |-> data, size |-> size,
     rest |-> <<>>, fragment_list |-> <<>>, msg |-> NoMessage]

\* one turn of the while loop of split_message.new_generate
split_message_loop(c) ==
    [c EXCEPT !.fragment_list =
                  Append(@, Message(c.contentType,
                                    PySlice(c.rest, 0, <<c.size>>))),
              !.rest = PySlice(c.rest, c.size, <<>>)]

\* a FlushMessageList.generate that returns the first fragment and leaves
\* the others
FlushMessageList_generate_first(fragment_list) ==
    [msg |-> Head(fragment_list), fragment_list |-> Tail(fragment_list)]

\* FlushMessageList.generate on a list that is not empty: the fragments
\* are of one content type in this model, so the assert holds
FlushMessageList_generate(fragment_list) ==
    LET RECURSIVE Drain(_, _)
        Drain(data, list) ==
            IF list = <<>> THEN data
            ELSE Drain(data \o Write(Head(list)), Tail(list))
    IN  [msg |-> Message(Head(fragment_list).contentType,
                         Drain(Write(Head(fragment_list)),
                               Tail(fragment_list))),
         fragment_list |-> <<>>]

InitSplit ==
    /\ state = NewConnectionState
    /\ msg_sock = NoSocket
    /\ public_key = <<>>
    /\ private_key = <<>>
    /\ pc = "ready"
    /\ wire = <<>>
    /\ before = AllHooks(NoSocket, <<>>, <<>>)
    /\ last = "init"
    /\ steps = 0
    /\ log = NoLog
    /\ driver = NoDriver
    /\ runner = NoRunner
    /\ \E contentType \in {CT_handshake, CT_application_data} :
       \E data \in ByteStrings \cup {<<>>} :
       \E size \in Sizes :
          cur = Splitting(contentType, data, size)

\* new_generate up to the loop: msg = old_generate(state), data = msg.write()
SplitGenerate ==
    /\ pc = "ready"
    /\ last = "init"
    /\ cur' = [cur EXCEPT !.rest = cur.data]
    /\ pc' = "splitting"
    /\ last' = "old_generate"
    /\ UNCHANGED <<state, msg_sock, public_key, private_key, wire, before,
                   steps, log, driver, runner>>

\* while len(data) > 0: one more fragment
SplitLoop ==
    /\ pc = "splitting"
    /\ Len(cur.rest) > 0
    /\ Len(cur.fragment_list) < MaxFragments
    /\ cur' = split_message_loop(cur)
    /\ last' = "while"
    /\ UNCHANGED <<state, msg_sock, public_key, private_key, pc, wire,
                   before, steps, log, driver, runner>>

\* the message that a generate took from the list goes out; pop(0) of an
\* empty list raises IndexError
Emit(r, name) ==
    IF cur.fragment_list = <<>>
    THEN /\ pc' = "failed"
         /\ last' = name \o " raised"
         /\ UNCHANGED <<cur, wire>>
    ELSE /\ pc' = "ready"
         /\ last' = name
         /\ cur' = [cur EXCEPT !.msg = r.msg,
                               !.fragment_list = r.fragment_list]
         /\ wire' = wire \o Write(r.msg)

\* the loop is left: return fragment_list.pop(0)
SplitReturn ==
    /\ pc = "splitting"
    /\ Len(cur.rest) = 0
    /\ Emit([msg |-> Head(cur.fragment_list),
             fragment_list |-> Tail(cur.fragment_list)], "split_message")
    /\ UNCHANGED <<state, msg_sock, public_key, private_key, before, steps,
                   log, driver, runner>>

\* PopMessageFromList.generate
PopMessageFromList ==
    /\ pc = "ready"
    /\ last # "init"
    /\ Emit([msg |-> Head(cur.fragment_list),
             fragment_list |-> Tail(cur.fragment_list)],
            "PopMessageFromList")
    /\ UNCHANGED <<state, msg_sock, public_key, private_key, before, steps,
                   log, driver, runner>>

\* FlushMessageList.generate
FlushMessageList ==
    /\ pc = "ready"
    /\ last # "init"
    /\ Emit(FlushMessageList_generate(cur.fragment_list), "FlushMessageList")
    /\ UNCHANGED <<state, msg_sock, public_key, private_key, before, steps,
                   log, driver, runner>>

NextSplit ==
    \/ SplitGenerate
    \/ SplitLoop
    \/ SplitReturn
    \/ PopMessageFromList
    \/ FlushMessageList

SpecSplit == InitSplit /\ [][NextSplit]_vars

\* generate is a call that runs on: a turn of the loop that can be taken
\* is taken
SpecSplitFair == SpecSplit /\ WF_vars(NextSplit)

\* the bytes of the messages of a list, in order
RECURSIVE Joined(_)
Joined(list) ==
    IF list = <<>> THEN <<>> ELSE Write(Head(list)) \o Joined(Tail(list))

\* C36: with a payload that is not empty and size >= 1, on a
\* fragment_list that is empty as it was created, split_message returns
\* the first size bytes (or all, if fewer) and leaves the other fragments in
\* the list in order; every fragment has at most size bytes and the content
\* type of the message; what has gone out through split_message,
\* PopMessageFromList and FlushMessageList followed by what is still in the
\* list is the payload, each byte once; FlushMessageList leaves the list
\* empty.
C36_SplitRoundTrip ==
    (Len(cur.data) > 0 /\ cur.size >= 1 /\ pc = "ready" /\ last # "init") =>
       /\ wire \o Joined(cur.fragment_list) = cur.data
       /\ \A k \in 1..Len(cur.fragment_list) :
             /\ Len(Write(cur.fragment_list[k])) \in 1..cur.size
             /\ cur.fragment_list[k].contentType = cur.contentType
       /\ cur.msg.contentType = cur.contentType
       /\ last = "split_message" =>
             /\ Write(cur.msg) = PySlice(cur.data, 0, <<cur.size>>)
             /\ wire = Write(cur.msg)
       /\ last = "PopMessageFromList" => Len(Write(cur.msg)) \in 1..cur.size
       /\ last = "FlushMessageList" =>
             /\ cur.fragment_list = <<>>
             /\ wire = cur.data

\* a payload of MaxData bytes went out as a first fragment of one byte and
\* a message of FlushMessageList that holds the other bytes
C36_Witness ==
    /\ last = "FlushMessageList"
    /\ cur.size = 1
    /\ Len(cur.data) = MaxData
    /\ Len(Write(cur.msg)) = MaxData - 1
    /\ wire = cur.data
    /\ cur.fragment_list = <<>>

LoopFixedPoint ==
    /\ pc = "splitting"
    /\ Len(cur.rest) > 0
    /\ cur.size < 1
    /\ split_message_loop(cur).rest = cur.rest

---------------------------------------------------------------------------
(* fuzz_padding with a min_length (C38): the wrapper is made, and the      *)
(* new_add_padding it puts on the socket is called with the plaintext and  *)
(* MAC of a record.                                                        *)

\* min_length: short ones, the longest that are accepted, and two that
\* are not
MinLengths == 0..(2 * BlockSize) \cup 250..257

PaddingCall(data, min_length) == [data |-> data, min_length |-> min_length]

InitPadding ==
    /\ state = NewConnectionState
    /\ msg_sock = NoSocket
    /\ public_key = <<>>
    /\ private_key = <<>>
    /\ pc = "ready"
    /\ wire = <<>>
    /\ before = AllHooks(NoSocket, <<>>, <<>>)
    /\ last = "init"
    /\ steps = 0
    /\ log = NoLog
    /\ driver = NoDriver
    /\ runner = NoRunner
    /\ \E data \in ByteStrings \cup {<<>>}, min_length \in MinLengths :
          cur = PaddingCall(data, min_length)

\* fuzz_padding(generator, min_length)
FuzzPadding ==
    /\ pc = "ready"
    /\ last = "init"
    /\ IF fuzz_padding_raises(cur.min_length)
       THEN pc' = "failed" /\ last' = "fuzz_padding raised"
       ELSE pc' = "ready" /\ last' = "fuzz_padding"
    /\ UNCHANGED <<state, msg_sock, public_key, private_key, cur, wire,
                   before, steps, log, driver, runner>>

\* new_add_padding(data)
NewAddPadding ==
    /\ pc = "ready"
    /\ last = "fuzz_padding"
    /\ LET f == Wrapper("fuzz_padding", None, None, cur.min_length)
       IN  IF fuzz_padding_new_add_padding_raises(f, cur.data)
           THEN /\ pc' = "failed"
                /\ last' = "new_add_padding raised"
                /\ wire' = wire
           ELSE /\ pc' = "done"
                /\ last' = "new_add_padding"
                /\ wire' = fuzz_padding_new_add_padding(f, cur.data, <<>>)
    /\ UNCHANGED <<state, msg_sock, public_key, private_key, cur, before,
                   steps, log, driver, runner>>

NextPadding == FuzzPadding \/ NewAddPadding

SpecPadding == InitPadding /\ [][NextPadding]_vars

\* the smallest length that is at least m and makes n + length a multiple
\* of the block size
SmallestPadding(n, m) ==
    CHOOSE L \in m..(m + BlockSize) :
       /\ (n + L) % BlockSize = 0
       /\ \A shorter \in m..(L - 1) : (n + shorter) % BlockSize # 0

\* C38: with a min_length m of 0..255 the padding that new_add_padding
\* appends has the smallest length L >= m that makes the length of the data
\* and the padding a multiple of the block size, and every byte of it is
\* L - 1, which is at most 255; a min_length of 256 or more is refused when
\* the wrapper is made, and an L of more than 256 when the padding is
\* made.
C38_PaddingLength ==
    LET n == Len(cur.data)
        L == SmallestPadding(n, cur.min_length)
    IN  /\ last = "fuzz_padding raised" => cur.min_length >= 256
        /\ last = "fuzz_padding" => cur.min_length \in 0..255
        /\ last = "new_add_padding raised" => L > 256
        /\ last = "new_add_padding" =>
              /\ L <= 256
              /\ Len(wire) = n + L
              /\ SubSeq(wire, 1, n) = cur.data
              /\ \A k \in (n + 1)..(n + L) :
                    wire[k] = L - 1 /\ wire[k] \in 0..255

\* a padding of 256 bytes, the longest there is
C38_Witness ==
    /\ last = "new_add_padding"
    /\ cur.min_length = 255
    /\ Len(wire) = Len(cur.data) + 256
    /\ wire[Len(wire)] = 255

---------------------------------------------------------------------------
(* pad_handshake and truncate_handshake (C39): the handshake message of a  *)
(* wrapped Generator is written.                                           *)

pad_handshake(size, pad_byte) ==
    [Wrapper("pad_handshake", None, None, size) EXCEPT !.pad_byte = pad_byte]

\* pad_handshake(generator, pad=pad)
pad_handshake_pad(pad) ==
    [w |-> "pad_handshake", substitutions |-> None, xors |-> None,
     arg |-> 0, pad_byte |-> 0, pad |-> pad]

truncate_handshake(size, pad_byte) == pad_handshake(0 - size, pad_byte)

PadWrappers ==
    {pad_handshake(size, pad_byte) :
        size \in 0..2, pad_byte \in {0, 170}}
    \cup {pad_handshake_pad(pad) : pad \in {<<>>, <<1>>, <<1, 2>>}}
    \cup {truncate_handshake(size, 0) : size \in 0..(MaxData + 1)}

InitPadHandshake ==
    /\ state = NewConnectionState
    /\ msg_sock = NoSocket
    /\ public_key = <<>>
    /\ private_key = <<>>
    /\ pc = "ready"
    /\ wire = <<>>
    /\ before = AllHooks(NoSocket, <<>>, <<>>)
    /\ last = "init"
    /\ steps = 0
    /\ log = NoLog
    /\ driver = NoDriver
    /\ runner = NoRunner
    /\ \E body \in ByteStrings \cup {<<>>}, f \in PadWrappers :
       \E handshakeType \in {1, 16, 20} :
          cur = Cur([Node("none") EXCEPT !.wraps = <<f>>], NoAttrs,
                    HandshakeMsg(handshakeType, body))

\* new_generate of the wrapper: msg.postWrite = post_write
PadGenerate ==
    /\ pc = "ready"
    /\ last = "init"
    /\ cur' = [cur EXCEPT
                 !.msg = pad_handshake_new_generate(
                            [sock |-> msg_sock, gen |-> NoAttrs,
                             msg |-> cur.msg], cur.node.wraps[1]).msg]
    /\ pc' = "generated"
    /\ last' = "generate"
    /\ UNCHANGED <<state, msg_sock, public_key, private_key, wire, before,
                   steps, log, driver, runner>>

\* msg.write().  Writer.add of a negative length is the collaborator's: it
\* raises ValueError or writes the low 24 bits, by its version
PadWrite ==
    /\ pc = "generated"
    /\ \E raises \in BOOLEAN :
          LET f == cur.msg.postWrite[1]
              negative == "pad" \notin DOMAIN f
                             /\ Len(cur.msg.body) + f.arg < 0
          IN  IF raises
              THEN /\ negative
                   /\ pc' = "failed"
                   /\ last' = "write raised"
                   /\ wire' = wire
              ELSE /\ pc' = "done"
                   /\ last' = "write"
                   /\ wire' = Write(cur.msg)
    /\ UNCHANGED <<state, msg_sock, public_key, private_key, cur, before,
                   steps, log, driver, runner>>

NextPadHandshake == PadGenerate \/ PadWrite

SpecPadHandshake == InitPadHandshake /\ [][NextPadHandshake]_vars

\* the number in the three bytes after the type
LengthField(bytes) == (bytes[2] * 65536) + (bytes[3] * 256) + bytes[4]

\* C39: a message padded or truncated by pad_handshake or
\* truncate_handshake is written, and the three bytes of its length are the
\* number of bytes that follow them: those of the message and size more,
\* those of the message and the pad, or size fewer when truncating, none
\* when more are cut than there are.
C39_LengthFieldIsBodyLength ==
    /\ last # "write raised"
    /\ last = "write" =>
          LET f == cur.msg.postWrite[1]
              n == Len(cur.msg.body)
              emitted == IF "pad" \in DOMAIN f THEN n + Len(f.pad)
                         ELSE IF n + f.arg < 0 THEN 0 ELSE n + f.arg
          IN  /\ Len(wire) = 4 + emitted
              /\ LengthField(wire) = emitted

---------------------------------------------------------------------------
(* The private-key operation of CertificateVerifyGenerator (C40):          *)
(* RSAKey.sign encodes the verify bytes to a number m below n and calls    *)
(* _rawPrivateKeyOp(m), which is _newRawPrivateKeyOp with the generator's  *)
(* padding_subs and padding_xors.                                          *)

\* the numbers sign may encode to: the least and some of the greatest
EncodedMessages == {0, 1, 255, 256} \cup (PrivateModulus - 8)..(PrivateModulus - 1)

\* padding_xors as the script makes them, {pos: xor} of one bit
OneBitXors ==
    {None} \cup {Dict(<<<<pos, xor>>>>) : pos \in 0..1, xor \in {1, 2, 128}}

PaddingSubs ==
    {None, SubHi,
     Dict(<<<<0, PrivateModulus \div 256>>, <<1, PrivateModulus % 256>>>>)}

Signing(m, padding_subs, padding_xors) ==
    [m |-> m, padding_subs |-> padding_subs, padding_xors |-> padding_xors,
     handed |-> 0]

InitSign ==
    /\ state = NewConnectionState
    /\ msg_sock = NoSocket
    /\ public_key = <<>>
    /\ private_key = <<>>
    /\ pc = "ready"
    /\ wire = <<>>
    /\ before = AllHooks(NoSocket, <<>>, <<>>)
    /\ last = "init"
    /\ steps = 0
    /\ log = NoLog
    /\ driver = NoDriver
    /\ runner = NoRunner
    /\ \E m \in EncodedMessages, padding_subs \in PaddingSubs,
          padding_xors \in OneBitXors :
          cur = Signing(m, padding_subs, padding_xors)

\* generate puts _newRawPrivateKeyOp on the key
PatchPrivateKey ==
    /\ pc = "ready"
    /\ last = "init"
    /\ private_key' = Append(private_key,
                             Wrapper("_newRawPrivateKeyOp", cur.padding_subs,
                                     cur.padding_xors, 0))
    /\ last' = "patched"
    /\ UNCHANGED <<state, msg_sock, public_key, pc, cur, wire, before, steps,
                   log, driver, runner>>

\* sign calls _rawPrivateKeyOp(m): handed is the number that goes to
\* original_rawPrivateKeyOp, wire the signature
RawPrivateKeyOp ==
    /\ pc = "ready"
    /\ last = "patched"
    /\ cur' = [cur EXCEPT
                 !.handed = newRawPrivateKeyOp_m(private_key[1], cur.m)]
    /\ wire' = numberToByteArray2(rawPrivateKeyOp(private_key, cur.m))
    /\ private_key' = sign_finally(<<>>, private_key, FALSE)
    /\ pc' = "done"
    /\ last' = "_rawPrivateKeyOp"
    /\ UNCHANGED <<state, msg_sock, public_key, before, steps, log, driver,
                   runner>>

NextSign == PatchPrivateKey \/ RawPrivateKeyOp

SpecSign == InitSign /\ [][NextSign]_vars

\* C40: the number that _newRawPrivateKeyOp hands to the original
\* private-key operation, after the substitutions and the xors, is smaller
\* than the modulus n.
C40_BelowModulus ==
    last = "_rawPrivateKeyOp" => cur.handed < PrivateModulus

====
